---- MODULE Spec2Model ----
(***************************************************************************)
(* Template ingestion (template AST -> IR create/update op lists per view) *)
(* of the Angular template pipeline, modelled as a stack machine: the call *)
(* stack of the recursive ingest* functions is the variable `stack`, and   *)
(* every action is the straight-line part of one handler between two       *)
(* recursive calls of ingestNodes.                                         *)
(***************************************************************************)
EXTENDS Integers, Sequences, FiniteSets, TLC

VARIABLES
    status,          \* "idle" | "ingesting" | "done" | "error"
    template,        \* the t.Node[] handed to ingestComponent
    nextXrefId,      \* job.nextXrefId
    allocated,       \* the ids handed out by allocateXrefId, in order
    parent,          \* view xref -> xref of its parent view (NoXref for the root)
    create,          \* view xref -> unit.create
    update,          \* view xref -> unit.update
    contextVariables,\* view xref -> set of <<name, value>>
    aliases,         \* view xref -> set of alias records
    stack,           \* call stack of ingest* frames, top first
    error,           \* message of the Error that aborted ingestion, or NoError
    astIn,           \* expression handed to convertAst (expression lowering runs)
    lowered,         \* what convertAst returned for astIn
    hostInput,       \* the HostBindingInput object handed to ingestHostBinding
    hostJobs,        \* what the calls of ingestHostBinding on hostInput returned, in order
    ngDevMode,       \* the build flag ngDevMode
    app,             \* the fields of the ApplicationRef instance
    appStack,        \* the calls of ApplicationRef.tick() in progress, innermost first
    appLog,          \* what the outermost call of tick() in progress (or the last one) did
    appThrown,       \* the error a call of an ApplicationRef method threw in the last step
    classIn,         \* the class declaration handed to the signal-input metadata transform
    classOut,        \* the class declaration the transform emitted
    scheduler        \* the zoneless scheduler, its timers and the pending-tasks service

vars == <<status, template, nextXrefId, allocated, parent, create, update,
          contextVariables, aliases, stack, error, astIn, lowered,
          hostInput, hostJobs, ngDevMode, app, appStack, appLog, appThrown,
          classIn, classOut, scheduler>>

jobVars == <<status, template, nextXrefId, allocated, parent, create, update,
             contextVariables, aliases, stack, error>>

exprVars == <<astIn, lowered>>

hostVars == <<hostInput, hostJobs>>

appVars == <<ngDevMode, app, appStack, appLog, appThrown>>

transformVars == <<classIn, classOut>>

schedulerVars == <<scheduler>>

\* what the ingestion of a template leaves alone
sideVars == <<exprVars, hostVars, appVars, transformVars, schedulerVars>>

-----------------------------------------------------------------------------
(* Bounds of the model.                                                    *)

\* total number of AST nodes (blocks, branches and sub-blocks included) of a template
MaxNodes == 3

\* nesting depth of the expressions handed to convertAst in the lowering runs
MaxExprDepth == 2
\* the most static attributes a node of the binding templates has
MaxAttrs == 2

-----------------------------------------------------------------------------
(* Small helpers.                                                          *)

NoXref == -1
NoError == "none"
NoHostInput == [componentName |-> "null"]
Null == "null"

RECURSIVE SeqSum(_)
SeqSum(s) == IF s = <<>> THEN 0 ELSE Head(s) + SeqSum(Tail(s))

IsPrefix(s, t) == Len(s) <= Len(t) /\ SubSeq(t, 1, Len(s)) = s

SelectSeq2(s, Test(_)) == SelectSeq(s, Test)

Range(s) == {s[i] : i \in 1..Len(s)}

-----------------------------------------------------------------------------
(* Source spans.  A node's spans are identified by the node's position in  *)
(* the document: the path of child indices leading to it, indices being    *)
(* document positions.                                                     *)

NullSpan == [path |-> <<>>, part |-> "null"]
Span(path, part) == [path |-> path, part |-> part]

\* convertSourceSpan: null without a base span, else the relative span moved to
\* the base span's start / fullStart anchors.
ConvertSourceSpan(span, baseSourceSpan) ==
    IF baseSourceSpan = NullSpan
    THEN NullSpan
    ELSE [path |-> baseSourceSpan.path, part |-> baseSourceSpan.part,
          start |-> span.start, end |-> span.end, fullStart |-> span.start]

-----------------------------------------------------------------------------
(* The expression AST handed to convertAst.                                *)

ParseSpan == [start |-> 0, end |-> 1]

ImplicitReceiver == [type |-> "ImplicitReceiver", span |-> ParseSpan]
ThisReceiver == [type |-> "ThisReceiver", span |-> ParseSpan]
EmptyExprAst == [type |-> "EmptyExpr", span |-> ParseSpan]
LiteralPrimitive(v) == [type |-> "LiteralPrimitive", value |-> v, span |-> ParseSpan]
PropertyRead(r, n) == [type |-> "PropertyRead", receiver |-> r, name |-> n, span |-> ParseSpan]
SafePropertyRead(r, n) ==
    [type |-> "SafePropertyRead", receiver |-> r, name |-> n, span |-> ParseSpan]
PropertyWrite(r, n, v) ==
    [type |-> "PropertyWrite", receiver |-> r, name |-> n, value |-> v, span |-> ParseSpan]
KeyedRead(r, k) == [type |-> "KeyedRead", receiver |-> r, key |-> k, span |-> ParseSpan]
SafeKeyedRead(r, k) == [type |-> "SafeKeyedRead", receiver |-> r, key |-> k, span |-> ParseSpan]
KeyedWrite(r, k, v) ==
    [type |-> "KeyedWrite", receiver |-> r, key |-> k, value |-> v, span |-> ParseSpan]
Call(r, a) == [type |-> "Call", receiver |-> r, args |-> a, span |-> ParseSpan]
SafeCall(r, a) == [type |-> "SafeCall", receiver |-> r, args |-> a, span |-> ParseSpan]
Unary(op, x) == [type |-> "Unary", operator |-> op, expr |-> x, span |-> ParseSpan]
Binary(op, l, r) ==
    [type |-> "Binary", operation |-> op, left |-> l, right |-> r, span |-> ParseSpan]
Chain(xs) == [type |-> "Chain", expressions |-> xs, span |-> ParseSpan]
LiteralMap(ks, vs) == [type |-> "LiteralMap", keys |-> ks, values |-> vs, span |-> ParseSpan]
LiteralArray(xs) == [type |-> "LiteralArray", expressions |-> xs, span |-> ParseSpan]
Conditional(c, t, f) ==
    [type |-> "Conditional", condition |-> c, trueExp |-> t, falseExp |-> f,
     span |-> ParseSpan]
NonNullAssert(x) == [type |-> "NonNullAssert", expression |-> x, span |-> ParseSpan]
PrefixNot(x) == [type |-> "PrefixNot", expression |-> x, span |-> ParseSpan]
BindingPipe(x, n, a) ==
    [type |-> "BindingPipe", exp |-> x, name |-> n, args |-> a, span |-> ParseSpan]
ASTWithSource(x) == [type |-> "ASTWithSource", ast |-> x, span |-> ParseSpan]
Interpolation(ss, xs) ==
    [type |-> "Interpolation", strings |-> ss, expressions |-> xs, span |-> ParseSpan]

InstanceOfThisReceiverOnly(ast) == ast.type = "ThisReceiver"

\* `x instanceof e.ImplicitReceiver`: ThisReceiver is a subclass of ImplicitReceiver.
InstanceOfImplicitReceiver(ast) == ast.type \in {"ImplicitReceiver", "ThisReceiver"}

\* astOf
AstOf(ast) == IF ast.type = "ASTWithSource" THEN ast.ast ELSE ast

-----------------------------------------------------------------------------
(* The output / IR expressions convertAst produces.                        *)

LexicalReadExpr(n) == [e |-> "LexicalRead", name |-> n]
ContextExpr(view) == [e |-> "Context", view |-> view]
ReadPropExpr(r, n, sp) == [e |-> "ReadProp", receiver |-> r, name |-> n, sourceSpan |-> sp]
WritePropExpr(r, n, v, sp) ==
    [e |-> "WriteProp", receiver |-> r, name |-> n, value |-> v, sourceSpan |-> sp]
WriteKeyExpr(r, k, v, sp) ==
    [e |-> "WriteKey", receiver |-> r, index |-> k, value |-> v, sourceSpan |-> sp]
ReadKeyExpr(r, k, sp) == [e |-> "ReadKey", receiver |-> r, index |-> k, sourceSpan |-> sp]
InvokeFunctionExpr(f, a, sp) ==
    [e |-> "InvokeFunction", fn |-> f, args |-> a, sourceSpan |-> sp]
LiteralExpr(v, sp) == [e |-> "Literal", value |-> v, sourceSpan |-> sp]
UnaryOperatorExpr(op, x, sp) ==
    [e |-> "UnaryOperator", operator |-> op, expr |-> x, sourceSpan |-> sp]
BinaryOperatorExpr(op, l, r, sp) ==
    [e |-> "BinaryOperator", operator |-> op, lhs |-> l, rhs |-> r, sourceSpan |-> sp]
LiteralMapExpr(entries, sp) == [e |-> "LiteralMap", entries |-> entries, sourceSpan |-> sp]
LiteralArrayExpr(entries) == [e |-> "LiteralArray", entries |-> entries]
ConditionalExpr(c, t, f, sp) ==
    [e |-> "Conditional", condition |-> c, trueCase |-> t, falseCase |-> f,
     sourceSpan |-> sp]
PipeBindingExpr(target, n, a) ==
    [e |-> "PipeBinding", target |-> target, targetSlot |-> target, name |-> n, args |-> a]
SafeKeyedReadExpr(r, k, sp) ==
    [e |-> "SafeKeyedRead", receiver |-> r, index |-> k, sourceSpan |-> sp]
SafePropertyReadExpr(r, n) == [e |-> "SafePropertyRead", receiver |-> r, name |-> n]
SafeInvokeFunctionExpr(r, a) == [e |-> "SafeInvokeFunction", receiver |-> r, args |-> a]
EmptyExpr(sp) == [e |-> "Empty", sourceSpan |-> sp]
NotExpr(x, sp) == [e |-> "Not", condition |-> x, sourceSpan |-> sp]

\* a thrown Error, as the value of the expression that threw
Thrown(msg) == [e |-> "Error", msg |-> msg]
IsThrown(x) == x.e = "Error"

\* BINARY_OPERATORS: the operators the conversion table knows
BINARY_OPERATORS ==
    {"&&", ">", ">=", "&", "/", "==", "===", "<", "<=", "-", "%", "*", "!=", "!==",
     "??", "||", "+"}

\* the condition under which a PropertyRead lowers to a bare lexical read
IsImplicitOnlyRead(ast) ==
    LET isImplicitReceiver == InstanceOfImplicitReceiver(ast.receiver)
                                /\ ast.receiver.type # "ThisReceiver"
    IN isImplicitReceiver

IsLexicalRead(ast) ==
    LET isThisReceiver == ast.receiver.type = "ThisReceiver"
        isImplicitReceiver == InstanceOfImplicitReceiver(ast.receiver)
                                /\ ast.receiver.type # "ThisReceiver"
        isSpecialNode == ast.name = "$any" \/ ast.name = "$event"
    IN isImplicitReceiver \/ (isThisReceiver /\ ~isSpecialNode)

\* the result of a conversion: the expression (or the Error thrown) and the
\* job's id counter after it
Conv(expr, next) == [expr |-> expr, next |-> next]

\* `const x = v; ...`: the value v under the name the body F gives it
Let(v, F(_)) == F(v)

\* the conversion of a node from that of its one operand, which may have thrown
One(r, Mk(_)) == IF IsThrown(r.expr) THEN r ELSE Conv(Mk(r.expr), r.next)

\* the conversion of a node from those of its operands, which may have thrown
Many(r, Mk(_)) ==
    IF r.thrown THEN Conv(r.expr, r.next) ELSE Conv(Mk(r.exprs), r.next)

RECURSIVE ConvertAst(_, _, _, _)
RECURSIVE ConvertAll(_, _, _, _)

\* xs.map(x => convertAst(x, job, baseSourceSpan)): left to right, stopping at
\* the first conversion that throws
ConvertAll(xs, next, root, base) ==
    IF xs = <<>>
    THEN [exprs |-> <<>>, next |-> next, thrown |-> FALSE, expr |-> Thrown("")]
    ELSE Let(ConvertAst(Head(xs), next, root, base), LAMBDA h :
            IF IsThrown(h.expr)
            THEN [exprs |-> <<>>, next |-> h.next, thrown |-> TRUE, expr |-> h.expr]
            ELSE Let(ConvertAll(Tail(xs), h.next, root, base), LAMBDA t :
                    [exprs |-> <<h.expr>> \o t.exprs, next |-> t.next,
                     thrown |-> t.thrown, expr |-> t.expr]))

\* convertAst(ast, job, baseSourceSpan); `next` is job.nextXrefId, `root` is
\* job.root.xref
ConvertAst(ast, next, root, base) ==
    Let(ConvertSourceSpan(ast.span, base), LAMBDA sp :
    CASE ast.type = "ASTWithSource" -> ConvertAst(ast.ast, next, root, base)
      [] ast.type = "PropertyRead" ->
            IF IsLexicalRead(ast)
            THEN Conv(LexicalReadExpr(ast.name), next)
            ELSE One(ConvertAst(ast.receiver, next, root, base),
                     LAMBDA r : ReadPropExpr(r, ast.name, sp))
      [] ast.type = "PropertyWrite" ->
            IF InstanceOfImplicitReceiver(ast.receiver)
            THEN One(ConvertAst(ast.value, next, root, base),
                     LAMBDA v : WritePropExpr(ContextExpr(root), ast.name, v, sp))
            ELSE Many(ConvertAll(<<ast.receiver, ast.value>>, next, root, base),
                      LAMBDA xs : WritePropExpr(xs[1], ast.name, xs[2], sp))
      [] ast.type = "KeyedWrite" ->
            Many(ConvertAll(<<ast.receiver, ast.key, ast.value>>, next, root, base),
                 LAMBDA xs : WriteKeyExpr(xs[1], xs[2], xs[3], sp))
      [] ast.type = "Call" ->
            IF InstanceOfImplicitReceiver(ast.receiver)
            THEN Conv(Thrown("Unexpected ImplicitReceiver"), next)
            ELSE Many(ConvertAll(<<ast.receiver>> \o ast.args, next, root, base),
                      LAMBDA xs : InvokeFunctionExpr(xs[1], Tail(xs), sp))
      [] ast.type = "LiteralPrimitive" -> Conv(LiteralExpr(ast.value, sp), next)
      [] ast.type = "Unary" ->
            IF ast.operator \in {"+", "-"}
            THEN One(ConvertAst(ast.expr, next, root, base),
                     LAMBDA x : UnaryOperatorExpr(ast.operator, x, sp))
            ELSE Conv(Thrown("AssertionError: unknown unary operator"), next)
      [] ast.type = "Binary" ->
            IF ast.operation \notin BINARY_OPERATORS
            THEN Conv(Thrown("AssertionError: unknown binary operator"), next)
            ELSE Many(ConvertAll(<<ast.left, ast.right>>, next, root, base),
                      LAMBDA xs : BinaryOperatorExpr(ast.operation, xs[1], xs[2], sp))
      [] ast.type = "ThisReceiver" -> Conv(ContextExpr(root), next)
      [] ast.type = "KeyedRead" ->
            Many(ConvertAll(<<ast.receiver, ast.key>>, next, root, base),
                 LAMBDA xs : ReadKeyExpr(xs[1], xs[2], sp))
      [] ast.type = "Chain" -> Conv(Thrown("AssertionError: Chain in unknown context"), next)
      [] ast.type = "LiteralMap" ->
            Many(ConvertAll(ast.values, next, root, base),
                 LAMBDA xs : LiteralMapExpr(
                    [i \in 1..Len(xs) |-> [key |-> ast.keys[i], value |-> xs[i]]], sp))
      [] ast.type = "LiteralArray" ->
            Many(ConvertAll(ast.expressions, next, root, base),
                 LAMBDA xs : LiteralArrayExpr(xs))
      [] ast.type = "Conditional" ->
            Many(ConvertAll(<<ast.condition, ast.trueExp, ast.falseExp>>, next, root, base),
                 LAMBDA xs : ConditionalExpr(xs[1], xs[2], xs[3], sp))
      [] ast.type = "NonNullAssert" -> ConvertAst(ast.expression, next, root, base)
      [] ast.type = "BindingPipe" ->
            \* job.allocateXrefId() is evaluated before the operands are converted
            Many(ConvertAll(<<ast.exp>> \o ast.args, next + 1, root, base),
                 LAMBDA xs : PipeBindingExpr(next, ast.name, xs))
      [] ast.type = "SafeKeyedRead" ->
            Many(ConvertAll(<<ast.receiver, ast.key>>, next, root, base),
                 LAMBDA xs : SafeKeyedReadExpr(xs[1], xs[2], sp))
      [] ast.type = "SafePropertyRead" ->
            One(ConvertAst(ast.receiver, next, root, base),
                LAMBDA r : SafePropertyReadExpr(r, ast.name))
      [] ast.type = "SafeCall" ->
            Many(ConvertAll(<<ast.receiver>> \o ast.args, next, root, base),
                 LAMBDA xs : SafeInvokeFunctionExpr(xs[1], Tail(xs)))
      [] ast.type = "EmptyExpr" -> Conv(EmptyExpr(sp), next)
      [] ast.type = "PrefixNot" ->
            One(ConvertAst(ast.expression, next, root, base),
                LAMBDA x : NotExpr(x, sp))
      [] OTHER -> Conv(Thrown("Unhandled expression type"), next))

\* the ids convertAst allocated: those between the counter before and after
PipeIds(before, after) == {i \in Int : before <= i /\ i < after}


-----------------------------------------------------------------------------
(* i18n metadata (i18n.I18nMeta) and the template AST nodes.               *)

I18nUndefined == [type |-> "undefined"]
I18nMessage == [type |-> "Message", singleIcu |-> FALSE]
I18nIcuMessage == [type |-> "Message", singleIcu |-> TRUE]
I18nTagPlaceholder == [type |-> "TagPlaceholder"]
I18nBlockPlaceholder == [type |-> "BlockPlaceholder"]
I18nContainer(n) == [type |-> "Container", placeholders |-> n]

\* an absent optional AST (null / undefined)
NoAst == [type |-> "null"]
\* an absent optional block (deferBlock.loading, forBlock.empty, ...)
NoBlock == [present |-> FALSE]

NG_TEMPLATE_TAG_NAME == "ng-template"

TextAttribute(n, i18n) == [name |-> n, value |-> "v", i18n |-> i18n, text |-> TRUE]
BoundAttribute(ty, n, v, i18n) ==
    [type |-> ty, name |-> n, value |-> v, unit |-> Null, securityContext |-> "NONE",
     i18n |-> i18n, text |-> FALSE]
BoundEvent(ty, n, phase, h) ==
    [type |-> ty, name |-> n, phase |-> phase, target |-> Null, handler |-> h]

Element(i18n, hasEnd, attrs, inputs, outputs, children) ==
    [kind |-> "Element", name |-> "div", i18n |-> i18n, hasEnd |-> hasEnd,
     attributes |-> attrs, inputs |-> inputs, outputs |-> outputs,
     references |-> <<>>, children |-> children]
Template(tagName, i18n, tattrs, attrs, inputs, outputs, variables, children) ==
    [kind |-> "Template", tagName |-> tagName, i18n |-> i18n, hasEnd |-> TRUE,
     templateAttrs |-> tattrs, attributes |-> attrs, inputs |-> inputs,
     outputs |-> outputs, references |-> <<>>, variables |-> variables,
     children |-> children]
Content(i18n, attrs) ==
    [kind |-> "Content", name |-> "ng-content", selector |-> "*", i18n |-> i18n,
     attributes |-> attrs]
Text == [kind |-> "Text", value |-> "t"]
BoundText(value, i18n) == [kind |-> "BoundText", value |-> value, i18n |-> i18n]
Comment == [kind |-> "Comment"]
IfBlockBranch(expression, alias, children) ==
    [expression |-> expression, expressionAlias |-> alias, i18n |-> I18nUndefined,
     children |-> children]
IfBlock(branches) == [kind |-> "IfBlock", branches |-> branches]
SwitchBlockCase(expression, children) ==
    [expression |-> expression, i18n |-> I18nUndefined, children |-> children]
SwitchBlock(expression, cases) ==
    [kind |-> "SwitchBlock", expression |-> expression, cases |-> cases]
\* a connected block of @defer; pos is its position in the document among the
\* blocks of the @defer (the main block is first)
DeferSubBlock(pos, children) ==
    [present |-> TRUE, pos |-> pos, i18n |-> I18nUndefined, children |-> children,
     minimumTime |-> 0, afterTime |-> 0]
\* triggers, prefetchTriggers: the set of trigger kinds present; whenValue: the
\* value of the `when` triggers
DeferredBlock(hasMeta, children, loading, placeholder, err, triggers, prefetchTriggers, whenValue, prefetchWhenValue) ==
    [kind |-> "DeferredBlock", hasMeta |-> hasMeta, i18n |-> I18nUndefined,
     children |-> children, loading |-> loading, placeholder |-> placeholder,
     error |-> err, triggers |-> triggers, prefetchTriggers |-> prefetchTriggers,
     whenValue |-> whenValue, prefetchWhenValue |-> prefetchWhenValue]
\* vars, placeholders: the entries of icu.vars and icu.placeholders in key order,
\* each [name, node, pos], pos the sub-node's position in the document
Icu(i18n, icuVars, placeholders) ==
    [kind |-> "Icu", i18n |-> i18n, vars |-> icuVars, placeholders |-> placeholders]
ForLoopBlock(trackBy, expression, children, empty) ==
    [kind |-> "ForLoopBlock",
     item |-> [name |-> "item", value |-> "$implicit"],
     contextVariables |->
        [index |-> [name |-> "$index", value |-> "$index"],
         count |-> [name |-> "$count", value |-> "$count"],
         first |-> [name |-> "$first", value |-> "$first"],
         last  |-> [name |-> "$last", value |-> "$last"],
         even  |-> [name |-> "$even", value |-> "$even"],
         odd   |-> [name |-> "$odd", value |-> "$odd"]],
     trackBy |-> trackBy, expression |-> expression, i18n |-> I18nUndefined,
     children |-> children, empty |-> empty]
ForLoopBlockEmpty(children) ==
    [present |-> TRUE, i18n |-> I18nUndefined, children |-> children]

\* splitNsName: ":svg:g" -> <<"svg", "g">>, "div" -> <<null, "div">>; the names
\* of the model are the few listed here
SplitNsName(name) ==
    CASE name = ":svg:ng-template" -> <<"svg", "ng-template">>
      [] name = ":svg:g" -> <<"svg", "g">>
      [] OTHER -> <<Null, name>>

\* namespaceForKey
NamespaceForKey(key) == IF key = "svg" THEN "SVG" ELSE "HTML"

\* prefixWithNamespace
PrefixWithNamespace(name, namespace) ==
    IF namespace = "SVG" THEN <<"svg", name>> ELSE <<name>>

\* isPlainTemplate
IsPlainTemplate(tmpl) ==
    SplitNsName(IF tmpl.tagName = Null THEN "" ELSE tmpl.tagName)[2] = NG_TEMPLATE_TAG_NAME

\* asMessage: null for null/undefined metadata, the message for a Message, and
\* an Error for any other metadata
AsMessageThrows(i18n) == i18n.type \notin {"undefined", "Message"}
AsMessage(i18n) == IF i18n.type = "Message" THEN "Message" ELSE Null


-----------------------------------------------------------------------------
(* IR operations (ir.create*Op).  A slot handle is identified by the xref  *)
(* of the operation that owns it.                                          *)

ElementStartOp(tag, xref, namespace, i18nPlaceholder, startSourceSpan, wholeSourceSpan, localRefs) ==
    [kind |-> "ElementStart", xref |-> xref, tag |-> tag, handle |-> xref,
     namespace |-> namespace, i18nPlaceholder |-> i18nPlaceholder,
     startSourceSpan |-> startSourceSpan, wholeSourceSpan |-> wholeSourceSpan,
     localRefs |-> localRefs]
ElementEndOp(xref, sourceSpan) ==
    [kind |-> "ElementEnd", xref |-> xref, sourceSpan |-> sourceSpan]
TemplateOp(xref, templateKind, tag, functionNameSuffix, namespace, i18nPlaceholder, startSourceSpan, wholeSourceSpan, localRefs) ==
    [kind |-> "Template", xref |-> xref, templateKind |-> templateKind, tag |-> tag,
     handle |-> xref, functionNameSuffix |-> functionNameSuffix,
     namespace |-> namespace, i18nPlaceholder |-> i18nPlaceholder,
     startSourceSpan |-> startSourceSpan, wholeSourceSpan |-> wholeSourceSpan,
     localRefs |-> localRefs]
TextOp(xref, initialValue, icuPlaceholder, sourceSpan) ==
    [kind |-> "Text", xref |-> xref, handle |-> xref, initialValue |-> initialValue,
     icuPlaceholder |-> icuPlaceholder, sourceSpan |-> sourceSpan]
InterpolationExpr(strings, expressions, i18nPlaceholders) ==
    [e |-> "Interpolation", strings |-> strings, expressions |-> expressions,
     i18nPlaceholders |-> i18nPlaceholders]
InterpolateTextOp(target, interpolation, sourceSpan) ==
    [kind |-> "InterpolateText", target |-> target, interpolation |-> interpolation,
     sourceSpan |-> sourceSpan]
BindingOp(target, bindingKind, name, expression, unit, securityContext, isTextAttribute, isStructuralTemplateAttribute, templateKind, i18nMessage, sourceSpan) ==
    [kind |-> "Binding", target |-> target, bindingKind |-> bindingKind, name |-> name,
     expression |-> expression, unit |-> unit, securityContext |-> securityContext,
     isTextAttribute |-> isTextAttribute,
     isStructuralTemplateAttribute |-> isStructuralTemplateAttribute,
     templateKind |-> templateKind, i18nMessage |-> i18nMessage,
     sourceSpan |-> sourceSpan]
ExtractedAttributeOp(target, bindingKind, name, i18nMessage, securityContext) ==
    [kind |-> "ExtractedAttribute", target |-> target, bindingKind |-> bindingKind,
     name |-> name, expression |-> Null, i18nMessage |-> i18nMessage,
     securityContext |-> securityContext]
ListenerOp(target, targetSlot, name, tag, handlerOps, animationPhase, eventTarget, hostListener, sourceSpan) ==
    [kind |-> "Listener", target |-> target, targetSlot |-> targetSlot, name |-> name,
     tag |-> tag, handlerOps |-> handlerOps, animationPhase |-> animationPhase,
     eventTarget |-> eventTarget, hostListener |-> hostListener,
     sourceSpan |-> sourceSpan]
StatementOp(s, expr, sourceSpan) ==
    [kind |-> "Statement", statement |-> s, expr |-> expr, sourceSpan |-> sourceSpan]
I18nStartOp(xref, message, sourceSpan) ==
    [kind |-> "I18nStart", xref |-> xref, handle |-> xref, message |-> message,
     sourceSpan |-> sourceSpan]
I18nEndOp(xref, sourceSpan) == [kind |-> "I18nEnd", xref |-> xref, sourceSpan |-> sourceSpan]
I18nAttributesOp(xref, target) ==
    [kind |-> "I18nAttributes", xref |-> xref, handle |-> xref, target |-> target]
ProjectionOp(xref, selector, i18nPlaceholder, sourceSpan) ==
    [kind |-> "Projection", xref |-> xref, handle |-> xref, selector |-> selector,
     i18nPlaceholder |-> i18nPlaceholder, sourceSpan |-> sourceSpan]
ConditionalCaseExpr(expr, target, targetSlot, alias) ==
    [expr |-> expr, target |-> target, targetSlot |-> targetSlot, alias |-> alias]
ConditionalOp(target, targetSlot, test, conditions, sourceSpan) ==
    [kind |-> "Conditional", target |-> target, targetSlot |-> targetSlot, test |-> test,
     conditions |-> conditions, sourceSpan |-> sourceSpan]
RepeaterCreateOp(primaryView, emptyView, tag, track, varNames, emptyTag, startSourceSpan, wholeSourceSpan) ==
    [kind |-> "RepeaterCreate", xref |-> primaryView, handle |-> primaryView,
     emptyView |-> emptyView, tag |-> tag, track |-> track, varNames |-> varNames,
     emptyTag |-> emptyTag, startSourceSpan |-> startSourceSpan,
     wholeSourceSpan |-> wholeSourceSpan]
RepeaterOp(target, targetSlot, collection, sourceSpan) ==
    [kind |-> "Repeater", target |-> target, targetSlot |-> targetSlot,
     collection |-> collection, sourceSpan |-> sourceSpan]
DeferOp(xref, main, mainSlot, placeholderView, placeholderSlot, loadingSlot, errorSlot, sourceSpan) ==
    [kind |-> "Defer", xref |-> xref, handle |-> xref, mainView |-> main,
     mainSlot |-> mainSlot, placeholderView |-> placeholderView,
     placeholderSlot |-> placeholderSlot, loadingSlot |-> loadingSlot,
     errorSlot |-> errorSlot, sourceSpan |-> sourceSpan]
DeferOnOp(defer, trigger, prefetch, sourceSpan) ==
    [kind |-> "DeferOn", defer |-> defer, trigger |-> trigger, prefetch |-> prefetch,
     sourceSpan |-> sourceSpan]
DeferWhenOp(target, expr, prefetch, sourceSpan) ==
    [kind |-> "DeferWhen", target |-> target, expr |-> expr, prefetch |-> prefetch,
     sourceSpan |-> sourceSpan]
IcuStartOp(xref, message, sourceSpan) ==
    [kind |-> "IcuStart", xref |-> xref, message |-> message, sourceSpan |-> sourceSpan]
IcuEndOp(xref) == [kind |-> "IcuEnd", xref |-> xref]

\* the source span an operation carries (its start span for element-like ops)
OpSpan(op) ==
    IF "sourceSpan" \in DOMAIN op THEN op.sourceSpan
    ELSE IF "startSourceSpan" \in DOMAIN op THEN op.startSourceSpan
    ELSE NullSpan

\* domSchema.securityContext: a pure lookup on (tag, name, isAttribute)
SecurityContextOf(tag, name, isAttribute) == IF name = "href" THEN "URL" ELSE "NONE"

-----------------------------------------------------------------------------
(* The part of the job one handler works on: the id counter, the ids       *)
(* handed out so far, the create and update lists of the unit ingested     *)
(* into, and the Error thrown, if any.                                     *)

JobPart(next, alloc, cr, up) ==
    [next |-> next, alloc |-> alloc, create |-> cr, update |-> up,
     thrown |-> FALSE, msg |-> NoError]

\* job.allocateXrefId(): the id handed out is j.next
AllocateXrefId(j) == [j EXCEPT !.next = @ + 1, !.alloc = Append(@, j.next)]

Throw(j, msg) == [j EXCEPT !.thrown = TRUE, !.msg = msg]

PushCreate(j, ops) == [j EXCEPT !.create = @ \o ops]
PushUpdate(j, ops) == [j EXCEPT !.update = @ \o ops]

IdsSeq(a, b) == [i \in 1..(b - a) |-> a + i - 1]

\* the job after a conversion that moved the id counter to r.next
Converted(j, r) ==
    LET j2 == [j EXCEPT !.next = r.next, !.alloc = @ \o IdsSeq(j.next, r.next)]
    IN IF IsThrown(r.expr) THEN Throw(j2, r.expr.msg) ELSE j2

\* convertAstWithInterpolation, for a value that is a string (text = TRUE) or an AST
ConvertAstWithInterpolation(value, text, i18n, next, root, sourceSpan) ==
    IF text THEN Conv(LiteralExpr(value, NullSpan), next)
    ELSE IF value.type = "Interpolation"
    THEN Let(ConvertAll(value.expressions, next, root, sourceSpan), LAMBDA r :
            IF r.thrown THEN Conv(r.expr, r.next)
            ELSE IF AsMessageThrows(i18n)
            THEN Conv(Thrown("Expected i18n meta to be a Message"), r.next)
            ELSE Conv(InterpolationExpr(value.strings, r.exprs, <<>>), r.next))
    ELSE ConvertAst(value, next, root, sourceSpan)

BINDING_KINDS ==
    [Property |-> "Property", Attribute |-> "Attribute", Class |-> "ClassName",
     Style |-> "StyleProperty", Animation |-> "Animation"]

ExprSpan(x) == IF "sourceSpan" \in DOMAIN x THEN x.sourceSpan ELSE NullSpan

\* a handler none of whose expressions is returned
HandlerStatementNeverReturns(i, n) == "ExpressionStatement"

\* the statement made of the i-th of the n expressions of a handler:
\* `expressions.pop()` is returned, the others are expression statements
HandlerStatement(i, n) == IF i < n THEN "ExpressionStatement" ELSE "ReturnStatement"

\* makeListenerHandlerOps: the handler ops, or the Error thrown
MakeListenerHandlerOps(handlerIn, next, root, handlerSpan) ==
    LET handler == AstOf(handlerIn)
        handlerExprs == IF handler.type = "Chain" THEN handler.expressions ELSE <<handler>>
    IN IF Len(handlerExprs) = 0
       THEN [ops |-> <<>>, next |-> next,
             expr |-> Thrown("Expected listener to have non-empty expression list.")]
       ELSE Let(ConvertAll(handlerExprs, next, root, handlerSpan), LAMBDA r :
               IF r.thrown
               THEN [ops |-> <<>>, next |-> r.next, expr |-> r.expr]
               ELSE [ops |-> [i \in 1..Len(r.exprs) |->
                                StatementOp(HandlerStatement(i, Len(r.exprs)), r.exprs[i],
                                            ExprSpan(r.exprs[i]))],
                     next |-> r.next, expr |-> LiteralExpr(0, NullSpan)])


-----------------------------------------------------------------------------
(* Binding ingestion.                                                      *)

\* the `null` createTemplateBinding returns for a binding that is skipped
NoOp == [kind |-> "null", i18nMessage |-> Null]

Bindings(ops, next) == [bindings |-> ops, next |-> next, thrown |-> FALSE, msg |-> NoError]
BindingsThrown(next, msg) ==
    [bindings |-> <<>>, next |-> next, thrown |-> TRUE, msg |-> msg]

\* the binding op of one element attribute (text = TRUE) or input
ElementBinding(item, xref, tag, path, next, root) ==
    IF item.text
    THEN IF AsMessageThrows(item.i18n)
         THEN BindingsThrown(next, "Expected i18n meta to be a Message")
         ELSE Bindings(<<BindingOp(xref, "Attribute", item.name,
                                   LiteralExpr(item.value, NullSpan), Null,
                                   SecurityContextOf(tag, item.name, TRUE), TRUE, FALSE,
                                   Null, AsMessage(item.i18n), Span(path, item.name))>>,
                       next)
    ELSE Let(ConvertAstWithInterpolation(AstOf(item.value), FALSE, item.i18n, next, root,
                                         NullSpan),
             LAMBDA r :
                IF IsThrown(r.expr) THEN BindingsThrown(r.next, r.expr.msg)
                ELSE IF AsMessageThrows(item.i18n)
                THEN BindingsThrown(r.next, "Expected i18n meta to be a Message")
                ELSE Bindings(<<BindingOp(xref, BINDING_KINDS[item.type], item.name,
                                          r.expr, item.unit, item.securityContext, FALSE,
                                          FALSE, Null, AsMessage(item.i18n),
                                          Span(path, item.name))>>,
                              r.next))

RECURSIVE ElementBindings(_, _, _, _, _, _)
\* the two loops of ingestElementBindings over element.attributes and
\* element.inputs (items is the one list followed by the other)
ElementBindings(items, xref, tag, path, next, root) ==
    IF items = <<>> THEN Bindings(<<>>, next)
    ELSE Let(ElementBinding(Head(items), xref, tag, path, next, root), LAMBDA h :
            IF h.thrown THEN h
            ELSE Let(ElementBindings(Tail(items), xref, tag, path, h.next, root),
                     LAMBDA t : IF t.thrown THEN t
                                ELSE Bindings(h.bindings \o t.bindings, t.next)))

\* `b?.kind === ir.OpKind.ExtractedAttribute`
IsExtractedAttribute(op) == op.kind = "ExtractedAttribute"

\* a filter that drops the binding ops of text attributes
IsBindingOfInput(op) == op.kind = "Binding" /\ ~op.isTextAttribute

\* `b?.kind === ir.OpKind.Binding`
IsBinding(op) == op.kind = "Binding"

\* `bindings.some(b => b?.i18nMessage) !== null`: some() yields a boolean, and
\* a boolean is never null
SomeI18nMessageIsNotNull(bindings) ==
    LET some == \E i \in 1..Len(bindings) : bindings[i].i18nMessage # Null
    IN some \in BOOLEAN

RECURSIVE ElementListeners(_, _, _, _, _, _)
\* the loop of ingestElementBindings over element.outputs
ElementListeners(outputs, j, xref, tag, path, root) ==
    IF outputs = <<>> THEN j
    ELSE LET output == Head(outputs) IN
         IF output.type = "Animation" /\ output.phase = Null
         THEN Throw(j, "Animation listener should have a phase")
         ELSE Let(MakeListenerHandlerOps(output.handler, j.next, root,
                                         Span(path, output.name)),
                  LAMBDA h :
                     Let(Converted(j, h), LAMBDA j2 :
                        IF j2.thrown THEN j2
                        ELSE ElementListeners(
                                Tail(outputs),
                                PushCreate(j2, <<ListenerOp(xref, xref, output.name, tag,
                                                            h.ops, output.phase,
                                                            output.target, FALSE,
                                                            Span(path, output.name))>>),
                                xref, tag, path, root)))

\* an i18n-attributes op only for a node with a binding that has an i18n message
IngestI18nAttributesIfMessage(j, bindings, xref) ==
    IF \E i \in 1..Len(bindings) : bindings[i].i18nMessage # Null
    THEN PushCreate(AllocateXrefId(j), <<I18nAttributesOp(j.next, xref)>>)
    ELSE j

\* the i18n-attributes op appended at the end of binding ingestion
IngestI18nAttributes(j, bindings, xref) ==
    IF SomeI18nMessageIsNotNull(bindings)
    THEN PushCreate(AllocateXrefId(j), <<I18nAttributesOp(j.next, xref)>>)
    ELSE j

\* ingestElementBindings(unit, op, element)
IngestElementBindings(j, xref, tag, element, path, root) ==
    Let(ElementBindings(element.attributes \o element.inputs, xref, element.name, path,
                        j.next, root),
        LAMBDA b :
    Let(Converted(j, Conv(IF b.thrown THEN Thrown(b.msg) ELSE LiteralExpr(0, NullSpan),
                          b.next)),
        LAMBDA j1 :
    IF j1.thrown THEN j1
    ELSE Let(ElementListeners(
                element.outputs,
                PushUpdate(PushCreate(j1, SelectSeq(b.bindings, IsExtractedAttribute)),
                           SelectSeq(b.bindings, IsBinding)),
                xref, tag, path, root),
             LAMBDA j3 :
                IF j3.thrown THEN j3 ELSE IngestI18nAttributes(j3, b.bindings, xref))))

IsExtractedOnlyTypeProperty(type) == type = "Property"

\* `type === Property || type === Class || type === Style`
IsExtractedOnlyType(type) == type \in {"Property", "Class", "Style"}

\* createTemplateBinding: the op (NoOp for null) or the Error thrown
CreateTemplateBinding(xref, type, name, value, text, unit, securityContext, isStructuralTemplateAttribute, templateKind, i18nMessage, sourceSpan, next, root) ==
    LET isTextBinding == text
        bindingType ==
            IF templateKind = "NgTemplate"
                 /\ (type = "Class" \/ type = "Style"
                       \/ (type = "Attribute" /\ ~isTextBinding))
            THEN "Property"
            ELSE BINDING_KINDS[type]
    IN
    IF templateKind = "Structural" /\ ~isStructuralTemplateAttribute
         /\ IsExtractedOnlyType(type)
    THEN Bindings(<<ExtractedAttributeOp(xref, "Property", name, i18nMessage,
                                         securityContext)>>, next)
    ELSE IF templateKind = "Structural" /\ ~isTextBinding
              /\ type \in {"Attribute", "Animation"}
    THEN Bindings(<<NoOp>>, next)
    ELSE Let(ConvertAstWithInterpolation(
                value, text, IF i18nMessage = Null THEN I18nUndefined ELSE I18nMessage,
                next, root, NullSpan),
             LAMBDA r :
                IF IsThrown(r.expr) THEN BindingsThrown(r.next, r.expr.msg)
                ELSE Bindings(<<BindingOp(xref, bindingType, name, r.expr, unit,
                                          securityContext, isTextBinding,
                                          isStructuralTemplateAttribute, templateKind,
                                          i18nMessage, sourceSpan)>>, r.next))

\* one iteration of the three loops of ingestTemplateBindings; structural is
\* TRUE for the entries of template.templateAttrs
TemplateBinding(item, structural, xref, templateKind, path, next, root) ==
    IF AsMessageThrows(item.i18n)
    THEN BindingsThrown(next, "Expected i18n meta to be a Message")
    ELSE IF item.text
    THEN CreateTemplateBinding(xref, "Attribute", item.name, item.value, TRUE, Null,
                               SecurityContextOf(NG_TEMPLATE_TAG_NAME, item.name, TRUE),
                               structural, templateKind, AsMessage(item.i18n),
                               Span(path, item.name), next, root)
    ELSE CreateTemplateBinding(xref, item.type, item.name, AstOf(item.value), FALSE,
                               item.unit, item.securityContext, structural, templateKind,
                               AsMessage(item.i18n), Span(path, item.name), next, root)

RECURSIVE TemplateBindings(_, _, _, _, _, _, _)
\* items: the entries to ingest, each <<entry, structural>>
TemplateBindings(items, xref, templateKind, path, next, root, acc) ==
    IF items = <<>> THEN Bindings(acc, next)
    ELSE Let(TemplateBinding(Head(items)[1], Head(items)[2], xref, templateKind, path,
                             next, root),
             LAMBDA h :
                IF h.thrown THEN h
                ELSE TemplateBindings(Tail(items), xref, templateKind, path, h.next, root,
                                      acc \o h.bindings))

RECURSIVE TemplateListeners(_, _, _, _, _, _, _)
\* the loop of ingestTemplateBindings over template.outputs
TemplateListeners(outputs, j, xref, tag, templateKind, path, root) ==
    IF outputs = <<>> THEN j
    ELSE LET output == Head(outputs)
             extracted ==
                IF templateKind = "Structural" /\ output.type # "Animation"
                THEN <<ExtractedAttributeOp(xref, "Property", output.name, Null,
                                            SecurityContextOf(NG_TEMPLATE_TAG_NAME,
                                                              output.name, FALSE))>>
                ELSE <<>>
         IN
         IF output.type = "Animation" /\ output.phase = Null
         THEN Throw(j, "Animation listener should have a phase")
         ELSE IF templateKind = "NgTemplate"
         THEN Let(MakeListenerHandlerOps(output.handler, j.next, root,
                                         Span(path, output.name)),
                  LAMBDA h :
                     Let(Converted(j, h), LAMBDA j2 :
                        IF j2.thrown THEN j2
                        ELSE TemplateListeners(
                                Tail(outputs),
                                PushCreate(j2, <<ListenerOp(xref, xref, output.name, tag,
                                                            h.ops, output.phase,
                                                            output.target, FALSE,
                                                            Span(path, output.name))>>
                                               \o extracted),
                                xref, tag, templateKind, path, root)))
         ELSE TemplateListeners(Tail(outputs), PushCreate(j, extracted), xref, tag,
                                templateKind, path, root)

Tagged(items, flag) == [i \in 1..Len(items) |-> <<items[i], flag>>]

\* ingestTemplateBindings(unit, op, template, templateKind)
IngestTemplateBindings(j, xref, tag, tmpl, templateKind, path, root) ==
    Let(TemplateBindings(Tagged(tmpl.templateAttrs, TRUE)
                            \o Tagged(tmpl.attributes, FALSE)
                            \o Tagged(tmpl.inputs, FALSE),
                         xref, templateKind, path, j.next, root, <<>>),
        LAMBDA b :
    Let(Converted(j, Conv(IF b.thrown THEN Thrown(b.msg) ELSE LiteralExpr(0, NullSpan),
                          b.next)),
        LAMBDA j1 :
    IF j1.thrown THEN j1
    ELSE Let(TemplateListeners(
                tmpl.outputs,
                PushUpdate(PushCreate(j1, SelectSeq(b.bindings, IsExtractedAttribute)),
                           SelectSeq(b.bindings, IsBinding)),
                xref, tag, templateKind, path, root),
             LAMBDA j3 :
                IF j3.thrown THEN j3 ELSE IngestI18nAttributes(j3, b.bindings, xref))))


-----------------------------------------------------------------------------
(* Handlers without a recursive call of ingestNodes.                       *)

\* const compatibilityMode = ir.CompatibilityMode.TemplateDefinitionBuilder:
\* job.compatibility is truthy
Compatibility == TRUE

\* ingestText(unit, text, icuPlaceholder)
IngestTextNoAlloc(j, text, icuPlaceholder, path) ==
    PushCreate([j EXCEPT !.alloc = Append(@, j.next - 1)],
               <<TextOp(j.next - 1, text.value, icuPlaceholder, Span(path, "whole"))>>)

\* ingestText putting its op in front of the list
IngestTextInFront(j, text, icuPlaceholder, path) ==
    [AllocateXrefId(j) EXCEPT
        !.create = <<TextOp(j.next, text.value, icuPlaceholder, Span(path, "whole"))>> \o @]

IngestText(j, text, icuPlaceholder, path) ==
    PushCreate(AllocateXrefId(j),
               <<TextOp(j.next, text.value, icuPlaceholder, Span(path, "whole"))>>)

\* the names of the i18n.Placeholder children of a Container
PlaceholderNames(i18n) ==
    IF i18n.type = "Container" THEN [i \in 1..i18n.placeholders |-> <<"PH", i>>] ELSE <<>>

\* ingestBoundText(unit, text, icuPlaceholder)
IngestBoundText(j, text, icuPlaceholder, path, root) ==
    LET value == AstOf(text.value)
        i18nPlaceholders == PlaceholderNames(text.i18n)
        sourceSpan == Span(path, "whole")
        baseSourceSpan == IF Compatibility THEN NullSpan ELSE sourceSpan
    IN IF value.type # "Interpolation"
       THEN Throw(j, "AssertionError: expected Interpolation for BoundText node")
       ELSE IF text.i18n.type \notin {"undefined", "Container"}
       THEN Throw(j, "Unhandled i18n metadata type for text interpolation")
       ELSE IF Len(i18nPlaceholders) > 0
                 /\ Len(i18nPlaceholders) # Len(value.expressions)
       THEN Throw(j, "Unexpected number of i18n placeholders")
       ELSE Let(ConvertAll(value.expressions, j.next + 1, root, baseSourceSpan),
                LAMBDA r :
            Let(Converted(PushCreate(AllocateXrefId(j),
                                     <<TextOp(j.next, "", icuPlaceholder, sourceSpan)>>),
                          Conv(IF r.thrown THEN r.expr ELSE LiteralExpr(0, NullSpan),
                               r.next)),
                LAMBDA j2 :
                   IF j2.thrown THEN j2
                   ELSE PushUpdate(j2, <<InterpolateTextOp(
                                            j.next,
                                            InterpolationExpr(value.strings, r.exprs,
                                                              i18nPlaceholders),
                                            sourceSpan)>>)))

RECURSIVE ContentAttributes(_, _, _, _, _)
\* the loop of ingestContent over content.attributes
ContentAttributes(attrs, j, xref, content, path) ==
    IF attrs = <<>> THEN j
    ELSE LET attr == Head(attrs) IN
         IF AsMessageThrows(attr.i18n)
         THEN Throw(j, "Expected i18n meta to be a Message")
         ELSE ContentAttributes(
                Tail(attrs),
                PushUpdate(j, <<BindingOp(xref, "Attribute", attr.name,
                                          LiteralExpr(attr.value, NullSpan), Null,
                                          SecurityContextOf(content.name, attr.name, TRUE),
                                          TRUE, FALSE, Null, AsMessage(attr.i18n),
                                          Span(path, attr.name))>>),
                xref, content, path)

\* an ingestContent that allocates the id of the projection op after the
\* attribute bindings were given theirs
IngestContentWithLateId(j, content, path) ==
    IF content.i18n.type \notin {"undefined", "TagPlaceholder"}
    THEN Throw(j, "Unhandled i18n metadata type for element")
    ELSE Let(ContentAttributes(content.attributes, AllocateXrefId(j), j.next, content,
                               path),
             LAMBDA j2 :
                IF j2.thrown THEN j2
                ELSE PushCreate(AllocateXrefId(j2),
                                <<ProjectionOp(j2.next, content.selector, content.i18n,
                                               Span(path, "whole"))>>))

\* ingestContent(unit, content)
IngestContent(j, content, path) ==
    IF content.i18n.type \notin {"undefined", "TagPlaceholder"}
    THEN Throw(j, "Unhandled i18n metadata type for element")
    ELSE Let(ContentAttributes(content.attributes, AllocateXrefId(j), j.next, content,
                               path),
             LAMBDA j2 :
                IF j2.thrown THEN j2
                ELSE PushCreate(j2, <<ProjectionOp(j.next, content.selector, content.i18n,
                                                   Span(path, "whole"))>>))

RECURSIVE Override(_, _)
\* the node a later entry of the same name puts in place of entry's node
Override(entry, later) ==
    IF later = <<>> THEN entry
    ELSE IF Head(later).name = entry.name THEN Override(Head(later), Tail(later))
    ELSE Override(entry, Tail(later))

\* Object.entries({...icu.vars, ...icu.placeholders}): a key keeps the place of
\* its first occurrence and the value of its last
IcuEntries(icu) ==
    LET all == icu.vars \o icu.placeholders
        First(i) == \A k \in 1..(i - 1) : all[k].name # all[i].name
        kept == SelectSeq([i \in 1..Len(all) |-> [i |-> i, entry |-> all[i]]],
                          LAMBDA x : First(x.i))
    IN [k \in 1..Len(kept) |->
          Override(kept[k].entry, SubSeq(all, kept[k].i + 1, Len(all)))]

RECURSIVE IcuSubNodes(_, _, _, _)
\* the loop of ingestIcu over the entries
IcuSubNodes(entries, j, path, root) ==
    IF entries = <<>> \/ j.thrown THEN j
    ELSE LET x == Head(entries) IN
         IcuSubNodes(Tail(entries),
                     IF x.node.kind = "BoundText"
                     THEN IngestBoundText(j, x.node, x.name, path \o <<x.pos>>, root)
                     ELSE IngestText(j, x.node, x.name, path \o <<x.pos>>),
                     path, root)

\* ingestIcu(unit, icu)
IngestIcu(j, icu, path, root) ==
    IF icu.i18n.type = "Message" /\ icu.i18n.singleIcu
    THEN Let(IcuSubNodes(IcuEntries(icu),
                         PushCreate(AllocateXrefId(j),
                                    <<IcuStartOp(j.next, "Message", NullSpan)>>),
                         path, root),
             LAMBDA j2 : IF j2.thrown THEN j2 ELSE PushCreate(j2, <<IcuEndOp(j.next)>>))
    ELSE Throw(j, "Unhandled i18n metadata type for ICU")

NoNode == [kind |-> "null"]

RECURSIVE FindRoot(_, _, _)
\* the loop of ingestControlFlowInsertionPoint over node.children, from child i
\* on: the index of the root found (0 for none), or -1 for the early `return null`
FindRoot(children, i, root) ==
    IF i > Len(children) THEN root
    ELSE IF children[i].kind = "Comment" THEN FindRoot(children, i + 1, root)
    ELSE IF root # 0 THEN -1
    ELSE IF children[i].kind = "Element"
              \/ (children[i].kind = "Template" /\ children[i].tagName # Null)
    THEN FindRoot(children, i + 1, i)
    ELSE FindRoot(children, i + 1, root)

RECURSIVE InsertionPointAttributes(_, _, _, _)
InsertionPointAttributes(attrs, j, xref, path) ==
    IF attrs = <<>> THEN j
    ELSE LET attr == Head(attrs) IN
         IF AsMessageThrows(attr.i18n)
         THEN Throw(j, "Expected i18n meta to be a Message")
         ELSE InsertionPointAttributes(
                Tail(attrs),
                PushUpdate(j, <<BindingOp(xref, "Attribute", attr.name,
                                          LiteralExpr(attr.value, NullSpan), Null,
                                          SecurityContextOf(NG_TEMPLATE_TAG_NAME, attr.name,
                                                            TRUE),
                                          TRUE, FALSE, Null, AsMessage(attr.i18n),
                                          Span(path, attr.name))>>),
                xref, path)

\* ingestControlFlowInsertionPoint(unit, xref, node): the job part and the tag
\* name returned; path is the path of node
IngestControlFlowInsertionPoint(j, xref, node, path) ==
    Let(FindRoot(node.children, 1, 0), LAMBDA r :
        IF r <= 0 THEN [j |-> j, tagName |-> Null]
        ELSE LET root == node.children[r]
                 tagName == IF root.kind = "Element" THEN root.name ELSE root.tagName
             IN [j |-> InsertionPointAttributes(root.attributes, j, xref, path \o <<r>>),
                 tagName |-> IF tagName = NG_TEMPLATE_TAG_NAME THEN Null ELSE tagName])

\* the trigger kinds of a defer block, in the order ingestDeferBlock looks at them
DeferOnKinds == <<"idle", "immediate", "timer", "hover", "interaction", "viewport">>

Trigger(kind) ==
    CASE kind = "idle" -> [kind |-> "Idle"]
      [] kind = "immediate" -> [kind |-> "Immediate"]
      [] kind = "timer" -> [kind |-> "Timer", delay |-> 0]
      [] kind = "hover" -> [kind |-> "Hover", targetName |-> "ref", targetXref |-> NoXref]
      [] kind = "interaction" ->
            [kind |-> "Interaction", targetName |-> "ref", targetXref |-> NoXref]
      [] kind = "viewport" ->
            [kind |-> "Viewport", targetName |-> "ref", targetXref |-> NoXref]

\* a pass that would add an idle trigger to a block that has when triggers only
DefaultsToIdleWithoutOnOps(deferOnOps, deferWhenOps) == Len(deferOnOps) = 0

\* `deferOnOps.length === 0 && deferWhenOps.length === 0`
DefaultsToIdle(deferOnOps, deferWhenOps) ==
    Len(deferOnOps) = 0 /\ Len(deferWhenOps) = 0

\* one pass of the loop of ingestDeferBlock over [triggers, prefetchTriggers]:
\* acc holds deferOnOps and deferWhenOps and the job's id counter
DeferTriggerPass(acc, triggers, prefetch, deferXref, deferBlock, path, root) ==
    LET pre == IF prefetch THEN "prefetch " ELSE ""
        whenValue == IF prefetch THEN deferBlock.prefetchWhenValue ELSE deferBlock.whenValue
        present == SelectSeq(DeferOnKinds, LAMBDA k : k \in triggers)
        onOps == [i \in 1..Len(present) |->
                    DeferOnOp(deferXref, Trigger(present[i]), prefetch,
                              Span(path, pre \o present[i]))]
    IN IF acc.thrown THEN acc
       ELSE Let(IF "when" \notin triggers
                THEN [acc EXCEPT !.deferOnOps = @ \o onOps]
                ELSE IF whenValue.type = "Interpolation"
                THEN [acc EXCEPT
                        !.thrown = TRUE,
                        !.msg = "Unexpected interpolation in defer block when trigger"]
                ELSE Let(ConvertAst(whenValue, acc.next, root, Span(path, pre \o "when")),
                         LAMBDA r :
                            IF IsThrown(r.expr)
                            THEN [acc EXCEPT !.thrown = TRUE, !.msg = r.expr.msg,
                                             !.next = r.next]
                            ELSE [acc EXCEPT
                                    !.deferOnOps = @ \o onOps,
                                    !.deferWhenOps =
                                        @ \o <<DeferWhenOp(deferXref, r.expr, prefetch,
                                                           Span(path, pre \o "when"))>>,
                                    !.next = r.next]),
                LAMBDA a :
                   IF ~a.thrown /\ DefaultsToIdle(a.deferOnOps, a.deferWhenOps)
                   THEN [a EXCEPT !.deferOnOps =
                            Append(@, DeferOnOp(deferXref, [kind |-> "Idle"], FALSE,
                                                NullSpan))]
                   ELSE a)

\* the loop over [deferBlock.triggers, deferBlock.prefetchTriggers]
DeferTriggers(next, deferXref, deferBlock, path, root) ==
    LET acc0 == [deferOnOps |-> <<>>, deferWhenOps |-> <<>>, next |-> next,
                 thrown |-> FALSE, msg |-> NoError]
        acc1 == DeferTriggerPass(acc0, deferBlock.triggers, FALSE, deferXref, deferBlock,
                                 path, root)
    IN DeferTriggerPass(acc1, deferBlock.prefetchTriggers, TRUE, deferXref, deferBlock,
                        path, root)


-----------------------------------------------------------------------------
(* The job and the call stack.                                             *)

\* job.root.xref: the first id the job's constructor allocates
RootXref == 0

Top == stack[1]

\* the frame of ingestNodes(unit, nodes): the nodes still to visit, the path of
\* the node that holds them and the position of the next one; snap holds the
\* create and update lists of all units and the next id as they were when the
\* node visited last, which is last, started being ingested (no unit and no
\* node before the first node)
NodesFrame(unit, nodes, path) ==
    [f |-> "ingestNodes", unit |-> unit, nodes |-> nodes, path |-> path, idx |-> 1,
     last |-> NoNode,
     snap |-> [create |-> <<>>, update |-> <<>>, next |-> NoXref]]

\* ingestNodes is about to dispatch on a node of the given kinds
Dispatching(kinds) ==
    /\ status = "ingesting"
    /\ stack # <<>>
    /\ Top.f = "ingestNodes"
    /\ Top.nodes # <<>>
    /\ Head(Top.nodes).kind \in kinds

\* the frame of ingestNodes once the loop has taken its next node
Advanced ==
    [Top EXCEPT !.nodes = Tail(@), !.idx = @ + 1, !.last = Head(Top.nodes),
                !.snap = [create |-> create, update |-> update, next |-> nextXrefId]]

NodePath == Top.path \o <<Top.idx>>

\* the part of the job a handler ingesting into unit u starts from
JobOf(u) == JobPart(nextXrefId, allocated, create[u], update[u])

\* job.allocateView(parent): the new view's xref is j.next
ViewRecord(xref, parentXref, ctx, als) ==
    [xref |-> xref, parent |-> parentXref, contextVariables |-> ctx, aliases |-> als]

\* a view every view but the root would be the child of
AllocateViewUnderRoot(unit, xref, ctx, als) == ViewRecord(xref, RootXref, ctx, als)

\* unit.job.allocateView(unit.xref): the view is allocated as a child of the
\* unit the handler ingests into
AllocateView(unit, xref, ctx, als) == ViewRecord(xref, unit, ctx, als)

\* the job after a handler: j is the part it worked on for unit u, newViews the
\* views it allocated, stk the call stack it leaves
Commit(u, j, newViews, stk) ==
    LET xs == {v.xref : v \in newViews}
        Ext(fn, init) == [x \in DOMAIN fn \cup xs |-> IF x \in DOMAIN fn THEN fn[x] ELSE init]
    IN /\ nextXrefId' = j.next
       /\ allocated' = j.alloc
       /\ create' = [Ext(create, <<>>) EXCEPT ![u] = j.create]
       /\ update' = [Ext(update, <<>>) EXCEPT ![u] = j.update]
       /\ parent' = [x \in DOMAIN parent \cup xs |->
                        IF x \in DOMAIN parent THEN parent[x]
                        ELSE (CHOOSE v \in newViews : v.xref = x).parent]
       /\ contextVariables' =
            [x \in DOMAIN parent \cup xs |->
                IF x \in DOMAIN parent THEN contextVariables[x]
                ELSE (CHOOSE v \in newViews : v.xref = x).contextVariables]
       /\ aliases' =
            [x \in DOMAIN parent \cup xs |->
                IF x \in DOMAIN parent THEN aliases[x]
                ELSE (CHOOSE v \in newViews : v.xref = x).aliases]
       /\ IF j.thrown
          THEN status' = "error" /\ error' = j.msg /\ stack' = <<>>
          ELSE status' = status /\ error' = error /\ stack' = stk
       /\ UNCHANGED <<template, sideVars>>

\* a Map.set on a view's context variables
MapSet(m, k, v) == {p \in m : p[1] # k} \cup {<<k, v>>}

\* the job before ingestion, and no expression lowered
InitJob ==
    /\ status = "idle"
    /\ template = <<>>
    /\ nextXrefId = RootXref + 1
    /\ allocated = <<RootXref>>
    /\ parent = [x \in {RootXref} |-> NoXref]
    /\ create = [x \in {RootXref} |-> <<>>]
    /\ update = [x \in {RootXref} |-> <<>>]
    /\ contextVariables = [x \in {RootXref} |-> {}]
    /\ aliases = [x \in {RootXref} |-> {}]
    /\ stack = <<>>
    /\ error = NoError
    /\ astIn = NoAst
    /\ lowered = NoAst

\* a new ApplicationRef: the field initializers of the class
NewApplicationRef ==
    [bootstrapListeners |-> <<>>, runningTick |-> FALSE, destroyed |-> FALSE,
     destroyListeners |-> <<>>, views |-> <<>>, injectorDestroyed |-> FALSE]

\* nothing done with the ApplicationRef yet
NoTickLog == [detected |-> <<>>, handled |-> <<>>]

InitApp ==
    /\ app = NewApplicationRef
    /\ appStack = <<>>
    /\ appLog = NoTickLog
    /\ appThrown = NoError

\* no class declaration
NoClass == [name |-> "null", fields |-> <<>>]

\* no metadata transform run
InitTransform ==
    /\ classIn = NoClass
    /\ classOut = NoClass

\* `number|null`: no pending task
NoTask == -1

\* new ChangeDetectionSchedulerImpl(), no timer set, and a pending-tasks
\* service without tasks; `added`, `fired`, `ticks`, `notifies`, `others`
\* and `stable` record what has happened so far
NewScheduler ==
    [pendingRenderTaskId |-> NoTask, tasks |-> {}, nextTaskId |-> 0, timers |-> 0,
     running |-> "idle", threw |-> FALSE, destroyed |-> FALSE,
     added |-> {}, fired |-> 0, ticks |-> 0, notifies |-> 0, others |-> 0,
     stable |-> [emitted |-> FALSE, notified |-> FALSE]]

InitScheduler == scheduler = NewScheduler

Init ==
    /\ InitJob
    /\ hostInput = NoHostInput
    /\ hostJobs = <<>>
    /\ ngDevMode = TRUE
    /\ InitApp
    /\ InitTransform
    /\ InitScheduler

\* ingestComponent(componentName, template, ...), for a template of the set T
IngestComponentOf(T) ==
    /\ status = "idle"
    /\ \E tpl \in T :
        /\ template' = tpl
        /\ stack' = <<NodesFrame(RootXref, tpl, <<>>)>>
    /\ status' = "ingesting"
    /\ UNCHANGED <<nextXrefId, allocated, parent, create, update, contextVariables,
                   aliases, error, sideVars>>

\* the end of the loop of ingestNodes; the end of the outermost one is the
\* return of ingestComponent
ReturnFromNodes ==
    /\ status = "ingesting"
    /\ stack # <<>>
    /\ Top.f = "ingestNodes"
    /\ Top.nodes = <<>>
    /\ stack' = Tail(stack)
    /\ status' = IF Tail(stack) = <<>> THEN "done" ELSE status
    /\ UNCHANGED <<template, nextXrefId, allocated, parent, create, update,
                   contextVariables, aliases, error, sideVars>>

\* `throw new Error("Unsupported template node")`
IngestUnsupported ==
    /\ Dispatching({"Comment"})
    /\ status' = "error"
    /\ error' = "Unsupported template node"
    /\ stack' = <<>>
    /\ UNCHANGED <<template, nextXrefId, allocated, parent, create, update,
                   contextVariables, aliases, sideVars>>

IngestTextNode ==
    /\ Dispatching({"Text"})
    /\ Commit(Top.unit, IngestText(JobOf(Top.unit), Head(Top.nodes), Null, NodePath), {},
              <<Advanced>> \o Tail(stack))

IngestBoundTextNode ==
    /\ Dispatching({"BoundText"})
    /\ Commit(Top.unit,
              IngestBoundText(JobOf(Top.unit), Head(Top.nodes), Null, NodePath, RootXref),
              {}, <<Advanced>> \o Tail(stack))

IngestContentNode ==
    /\ Dispatching({"Content"})
    /\ Commit(Top.unit, IngestContent(JobOf(Top.unit), Head(Top.nodes), NodePath), {},
              <<Advanced>> \o Tail(stack))

IngestIcuNode ==
    /\ Dispatching({"Icu"})
    /\ Commit(Top.unit, IngestIcu(JobOf(Top.unit), Head(Top.nodes), NodePath, RootXref), {},
              <<Advanced>> \o Tail(stack))


-----------------------------------------------------------------------------
(* Elements and templates.                                                 *)

LocalRefs(references) ==
    [i \in 1..Len(references) |->
        [name |-> references[i].name, target |-> references[i].value]]

\* OpList.insertBefore(op, target), target being the i-th op of the list
InsertBefore(list, op, i) == SubSeq(list, 1, i - 1) \o <<op>> \o SubSeq(list, i, Len(list))

\* `element.endSourceSpan ?? element.startSourceSpan`
ElementEndSpanAlwaysEnd(element, path) == Span(path, "end")

ElementEndSpan(element, path) ==
    IF element.hasEnd THEN Span(path, "end") ELSE Span(path, "start")

\* ingestElement up to the call ingestNodes(unit, element.children): the
\* job part, and the id of the i18n block opened (NoXref for none)
ElementStart(j, element, path, root) ==
    IF element.i18n.type \notin {"undefined", "Message", "TagPlaceholder"}
    THEN [j |-> Throw(j, "Unhandled i18n metadata type for element"),
          id |-> NoXref, i18nBlockId |-> NoXref]
    ELSE LET id == j.next
             ns == SplitNsName(element.name)
             startOp == ElementStartOp(
                            ns[2], id, NamespaceForKey(ns[1]),
                            IF element.i18n.type = "TagPlaceholder"
                            THEN element.i18n ELSE I18nUndefined,
                            Span(path, "start"), Span(path, "whole"),
                            LocalRefs(element.references))
         IN Let(IngestElementBindings(PushCreate(AllocateXrefId(j), <<startOp>>), id,
                                      ns[2], element, path, root),
                LAMBDA j2 :
                   IF j2.thrown \/ element.i18n.type # "Message"
                   THEN [j |-> j2, id |-> id, i18nBlockId |-> NoXref]
                   ELSE [j |-> PushCreate(AllocateXrefId(j2),
                                          <<I18nStartOp(j2.next, element.i18n,
                                                        Span(path, "start"))>>),
                         id |-> id, i18nBlockId |-> j2.next])

I18nEndPositionAfterEnd(list) == Len(list) + 1

\* `insertBefore(..., endOp)`: endOp is the op just pushed, the last of the list
I18nEndPosition(list) == Len(list)

\* ingestElement after the call ingestNodes(unit, element.children)
ElementEnd(j, id, i18nBlockId, element, path) ==
    LET endOp == ElementEndOp(id, ElementEndSpan(element, path))
        j1 == PushCreate(j, <<endOp>>)
    IN IF i18nBlockId # NoXref
       THEN [j1 EXCEPT !.create =
                InsertBefore(@, I18nEndOp(i18nBlockId, ElementEndSpan(element, path)),
                             I18nEndPosition(@))]
       ELSE j1

IngestElementStart ==
    /\ Dispatching({"Element"})
    /\ Let(ElementStart(JobOf(Top.unit), Head(Top.nodes), NodePath, RootXref), LAMBDA r :
          Commit(Top.unit, r.j, {},
                 <<NodesFrame(Top.unit, Head(Top.nodes).children, NodePath),
                   [f |-> "ingestElement", unit |-> Top.unit, id |-> r.id,
                    i18nBlockId |-> r.i18nBlockId, node |-> Head(Top.nodes),
                    path |-> NodePath],
                   Advanced>> \o Tail(stack)))

IngestElementEnd ==
    /\ status = "ingesting"
    /\ stack # <<>>
    /\ Top.f = "ingestElement"
    /\ Commit(Top.unit,
              ElementEnd(JobOf(Top.unit), Top.id, Top.i18nBlockId, Top.node, Top.path),
              {}, Tail(stack))

\* ingestTemplate up to the call ingestNodes(childView, tmpl.children); the
\* child view's xref is j.next
TemplateStart(j, tmpl, path, root) ==
    IF tmpl.i18n.type \notin {"undefined", "Message", "TagPlaceholder"}
    THEN Throw(j, "Unhandled i18n metadata type for template")
    ELSE LET childXref == j.next
             hasTag == tmpl.tagName # Null /\ tmpl.tagName # ""
             ns == IF hasTag THEN SplitNsName(tmpl.tagName) ELSE <<"", tmpl.tagName>>
             namespace == NamespaceForKey(ns[1])
             functionNameSuffix ==
                IF ns[2] = Null THEN <<>> ELSE PrefixWithNamespace(ns[2], namespace)
             templateKind == IF IsPlainTemplate(tmpl) THEN "NgTemplate" ELSE "Structural"
             templateOp == TemplateOp(
                            childXref, templateKind, ns[2], functionNameSuffix, namespace,
                            IF tmpl.i18n.type = "TagPlaceholder"
                            THEN tmpl.i18n ELSE I18nUndefined,
                            Span(path, "start"), Span(path, "whole"),
                            LocalRefs(tmpl.references))
         IN IngestTemplateBindings(PushCreate(AllocateXrefId(j), <<templateOp>>),
                                   childXref, ns[2], tmpl, templateKind, path, root)

RECURSIVE SetVariables(_, _)
\* the loop of ingestTemplate over tmpl.variables
SetVariables(ctx, variables) ==
    IF variables = <<>> THEN ctx
    ELSE SetVariables(MapSet(ctx, Head(variables).name,
                             IF Head(variables).value # "" THEN Head(variables).value
                             ELSE "$implicit"),
                      Tail(variables))

BracketsTemplateOfAnyKind(tmpl) == tmpl.i18n.type = "Message"

\* `templateKind === ir.TemplateKind.NgTemplate && tmpl.i18n instanceof i18n.Message`
BracketsTemplate(tmpl) == IsPlainTemplate(tmpl) /\ tmpl.i18n.type = "Message"

\* ingestTemplate after ingestNodes(childView, tmpl.children): j is the part of
\* the job for the child view
TemplateEnd(j, tmpl, path) ==
    IF BracketsTemplate(tmpl)
    THEN LET id == j.next
             j1 == AllocateXrefId(j)
             \* insertAfter(start, create.head): the head is the list's start marker
             withStart == <<I18nStartOp(id, tmpl.i18n, Span(path, "start"))>> \o j1.create
             \* insertBefore(end, create.tail): the tail is the list's end marker
             withEnd == withStart
                          \o <<I18nEndOp(id, IF tmpl.hasEnd THEN Span(path, "end")
                                             ELSE Span(path, "start"))>>
         IN [j1 EXCEPT !.create = withEnd]
    ELSE j

IngestTemplateStart ==
    /\ Dispatching({"Template"})
    /\ LET tmpl == Head(Top.nodes)
           j == TemplateStart(JobOf(Top.unit), tmpl, NodePath, RootXref)
           childXref == nextXrefId
       IN Commit(Top.unit, j,
                 IF tmpl.i18n.type \notin {"undefined", "Message", "TagPlaceholder"}
                 THEN {} ELSE {AllocateView(Top.unit, childXref, {}, {})},
                 <<NodesFrame(childXref, tmpl.children, NodePath),
                   [f |-> "ingestTemplate", unit |-> Top.unit, childView |-> childXref,
                    node |-> tmpl, path |-> NodePath],
                   Advanced>> \o Tail(stack))

IngestTemplateEnd ==
    /\ status = "ingesting"
    /\ stack # <<>>
    /\ Top.f = "ingestTemplate"
    /\ Let(TemplateEnd(JobOf(Top.childView), Top.node, Top.path), LAMBDA j :
          /\ nextXrefId' = j.next
          /\ allocated' = j.alloc
          /\ create' = [create EXCEPT ![Top.childView] = j.create])
    /\ contextVariables' =
          [contextVariables EXCEPT ![Top.childView] = SetVariables(@, Top.node.variables)]
    /\ stack' = Tail(stack)
    /\ UNCHANGED <<status, template, parent, update, aliases, error, sideVars>>


-----------------------------------------------------------------------------
(* @if and @switch.                                                        *)

\* an if block every branch of which is used for projection
IsProjectionBranchAlways(i) == TRUE

\* `if (i === 0)`: only the first branch can be used for projection (the
\* branches of the model are counted from 1)
IsProjectionBranch(i) == i = 1

\* one iteration of the loop of ingestIfBlock up to ingestNodes(cView, ...):
\* the job part, the condition collected and the first branch's xref
IfBranch(j, ifCase, i, path, root) ==
    Let(IF IsProjectionBranch(i)
        THEN IngestControlFlowInsertionPoint(AllocateXrefId(j), j.next, ifCase, path)
        ELSE [j |-> AllocateXrefId(j), tagName |-> Null],
        LAMBDA ip :
    IF ip.j.thrown THEN [j |-> ip.j, condition |-> NoAst, aliased |-> FALSE]
    ELSE IF ifCase.i18n.type \notin {"undefined", "BlockPlaceholder"}
    THEN [j |-> Throw(ip.j, "Unhandled i18n metadata type for if block"),
          condition |-> NoAst, aliased |-> TRUE]
    ELSE Let(IF ifCase.expression # NoAst
             THEN ConvertAst(ifCase.expression, ip.j.next, root, NullSpan)
             ELSE Conv(NoAst, ip.j.next),
             LAMBDA r :
                [j |-> Converted(
                          PushCreate(ip.j,
                                     <<TemplateOp(j.next, "Block", ip.tagName,
                                                  <<"Conditional">>, "HTML", ifCase.i18n,
                                                  Span(path, "start"), Span(path, "whole"),
                                                  <<>>)>>),
                          IF ifCase.expression # NoAst THEN r
                          ELSE Conv(LiteralExpr(0, NullSpan), r.next)),
                 condition |-> ConditionalCaseExpr(r.expr, j.next, j.next,
                                                   ifCase.expressionAlias),
                 aliased |-> TRUE]))

IngestIfBlock ==
    /\ Dispatching({"IfBlock"})
    /\ stack' = <<[f |-> "ingestIfBlock", unit |-> Top.unit, node |-> Head(Top.nodes),
                   i |-> 1, firstXref |-> NoXref, conditions |-> <<>>,
                   path |-> NodePath],
                  Advanced>> \o Tail(stack)
    /\ UNCHANGED <<status, template, nextXrefId, allocated, parent, create, update,
                   contextVariables, aliases, error, sideVars>>

IngestIfBranch ==
    /\ status = "ingesting"
    /\ stack # <<>>
    /\ Top.f = "ingestIfBlock"
    /\ Top.i <= Len(Top.node.branches)
    /\ LET ifCase == Top.node.branches[Top.i]
           p == Top.path \o <<Top.i>>
           cViewXref == nextXrefId
       IN Let(IfBranch(JobOf(Top.unit), ifCase, Top.i, p, RootXref), LAMBDA r :
             Commit(Top.unit, r.j,
                    {AllocateView(Top.unit, cViewXref,
                                IF r.aliased /\ ifCase.expressionAlias # Null
                                THEN {<<ifCase.expressionAlias, "CTX_REF">>} ELSE {},
                                {})},
                    <<NodesFrame(cViewXref, ifCase.children, p),
                      [Top EXCEPT !.i = @ + 1,
                                  !.firstXref = IF @ = NoXref THEN cViewXref ELSE @,
                                  !.conditions = Append(@, r.condition)]>>
                    \o Tail(stack)))

IngestIfEnd ==
    /\ status = "ingesting"
    /\ stack # <<>>
    /\ Top.f = "ingestIfBlock"
    /\ Top.i > Len(Top.node.branches)
    /\ Commit(Top.unit,
              PushUpdate(JobOf(Top.unit),
                         <<ConditionalOp(Top.firstXref, Top.firstXref, NoAst, Top.conditions,
                                         Span(Top.path, "whole"))>>),
              {}, Tail(stack))

\* one iteration of the loop of ingestSwitchBlock up to ingestNodes(cView, ...)
SwitchCase(j, switchCase, path, blockPath, root) ==
    IF switchCase.i18n.type \notin {"undefined", "BlockPlaceholder"}
    THEN [j |-> Throw(AllocateXrefId(j), "Unhandled i18n metadata type for switch block"),
          condition |-> NoAst]
    ELSE Let(IF switchCase.expression # NoAst
             THEN ConvertAst(switchCase.expression, j.next + 1, root,
                             Span(blockPath, "start"))
             ELSE Conv(NoAst, j.next + 1),
             LAMBDA r :
                [j |-> Converted(
                          PushCreate(AllocateXrefId(j),
                                     <<TemplateOp(j.next, "Block", Null, <<"Case">>, "HTML",
                                                  switchCase.i18n, Span(path, "start"),
                                                  Span(path, "whole"), <<>>)>>),
                          IF switchCase.expression # NoAst THEN r
                          ELSE Conv(LiteralExpr(0, NullSpan), r.next)),
                 condition |-> ConditionalCaseExpr(r.expr, j.next, j.next, Null)])

\* `if (switchBlock.cases.length === 0) return;`
SwitchIsIngestedAlways(switchBlock) == TRUE

SwitchIsIngested(switchBlock) == Len(switchBlock.cases) # 0

IngestSwitchBlock ==
    /\ Dispatching({"SwitchBlock"})
    /\ stack' = (IF SwitchIsIngested(Head(Top.nodes))
                 THEN <<[f |-> "ingestSwitchBlock", unit |-> Top.unit,
                         node |-> Head(Top.nodes), i |-> 1, firstXref |-> NoXref,
                         conditions |-> <<>>, path |-> NodePath]>>
                 ELSE <<>>)
                \o <<Advanced>> \o Tail(stack)
    /\ UNCHANGED <<status, template, nextXrefId, allocated, parent, create, update,
                   contextVariables, aliases, error, sideVars>>

IngestSwitchCase ==
    /\ status = "ingesting"
    /\ stack # <<>>
    /\ Top.f = "ingestSwitchBlock"
    /\ Top.i <= Len(Top.node.cases)
    /\ LET switchCase == Top.node.cases[Top.i]
           p == Top.path \o <<Top.i>>
           cViewXref == nextXrefId
       IN Let(SwitchCase(JobOf(Top.unit), switchCase, p, Top.path, RootXref), LAMBDA r :
             Commit(Top.unit, r.j, {AllocateView(Top.unit, cViewXref, {}, {})},
                    <<NodesFrame(cViewXref, switchCase.children, p),
                      [Top EXCEPT !.i = @ + 1,
                                  !.firstXref = IF @ = NoXref THEN cViewXref ELSE @,
                                  !.conditions = Append(@, r.condition)]>>
                    \o Tail(stack)))

\* the conditional op ingestSwitchBlock ends with
SwitchEnd(j, switchBlock, firstXref, conditions, path, root) ==
    Let(ConvertAst(switchBlock.expression, j.next, root, NullSpan), LAMBDA r :
    Let(Converted(j, r), LAMBDA j1 :
        IF j1.thrown THEN j1
        ELSE PushUpdate(j1, <<ConditionalOp(firstXref, firstXref, r.expr, conditions,
                                            Span(path, "whole"))>>)))

IngestSwitchEnd ==
    /\ status = "ingesting"
    /\ stack # <<>>
    /\ Top.f = "ingestSwitchBlock"
    /\ Top.i > Len(Top.node.cases)
    /\ Commit(Top.unit,
              SwitchEnd(JobOf(Top.unit), Top.node, Top.firstXref, Top.conditions, Top.path,
                        RootXref),
              {}, Tail(stack))


-----------------------------------------------------------------------------
(* @defer.                                                                 *)

\* the arguments of the four calls of ingestDeferView, in the order
\* ingestDeferBlock makes them: main, loading, placeholder, error
DeferStages == <<"", "Loading", "Placeholder", "Error">>

DeferBlockOf(deferBlock, stage) ==
    CASE stage = 1 -> [present |-> TRUE, pos |-> 1, i18n |-> deferBlock.i18n,
                       children |-> deferBlock.children]
      [] stage = 2 -> deferBlock.loading
      [] stage = 3 -> deferBlock.placeholder
      [] stage = 4 -> deferBlock.error

\* the source span handed to ingestDeferView: the whole @defer for the main
\* block, the connected block's own span for the others
DeferBlockSpan(block, stage, path) ==
    IF stage = 1 THEN Span(path, "whole") ELSE Span(path \o <<block.pos>>, "whole")

\* ingestDeferView up to ingestNodes(secondaryView, children): throws on
\* unsupported i18n metadata, returns null for a block that is absent
DeferViewStart(j, block) ==
    IF block.present /\ block.i18n.type \notin {"undefined", "BlockPlaceholder"}
    THEN Throw(j, "Unhandled i18n metadata type for defer block")
    ELSE IF ~block.present THEN j
    ELSE AllocateXrefId(j)

\* an ingestDeferView that returns without a template op for the view
DeferViewEndWithoutOp(j, viewXref, block, stage, path) == j

\* ingestDeferView after ingestNodes(secondaryView, children)
DeferViewEnd(j, viewXref, block, stage, path) ==
    PushCreate(j, <<TemplateOp(viewXref, "Block", Null, <<"Defer", DeferStages[stage]>>,
                               "HTML", block.i18n, DeferBlockSpan(block, stage, path),
                               DeferBlockSpan(block, stage, path), <<>>)>>)

\* ingestDeferBlock after the four calls of ingestDeferView; views are the
\* xrefs of the template ops they returned (NoXref for null)
DeferEnd(j, deferBlock, views, path, root) ==
    LET deferXref == j.next
        deferOp == DeferOp(deferXref, views[1], views[1], views[3], views[3], views[2],
                           views[4], Span(path, "whole"))
    IN Let(DeferTriggers(j.next + 1, deferXref, deferBlock, path, root), LAMBDA t :
       Let(Converted(PushCreate(AllocateXrefId(j), <<deferOp>>),
                     Conv(IF t.thrown THEN Thrown(t.msg) ELSE LiteralExpr(0, NullSpan),
                          t.next)),
           LAMBDA j2 :
              IF j2.thrown THEN j2
              ELSE PushUpdate(PushCreate(j2, t.deferOnOps), t.deferWhenOps)))

\* a map of defer metadata that has an entry for every block
BlockMetaIsNeverUndefined(deferBlock) == FALSE

\* `unit.job.deferBlocksMeta.get(deferBlock) === undefined`
BlockMetaIsUndefined(deferBlock) == ~deferBlock.hasMeta

IngestDeferBlock ==
    /\ Dispatching({"DeferredBlock"})
    /\ IF BlockMetaIsUndefined(Head(Top.nodes))
       THEN /\ status' = "error"
            /\ error' = "AssertionError: unable to find metadata for deferred block"
            /\ stack' = <<>>
       ELSE /\ stack' = <<[f |-> "ingestDeferBlock", unit |-> Top.unit,
                           node |-> Head(Top.nodes), path |-> NodePath, stage |-> 1,
                           pc |-> "view", cur |-> NoXref,
                           views |-> <<NoXref, NoXref, NoXref, NoXref>>],
                          Advanced>> \o Tail(stack)
            /\ UNCHANGED <<status, error>>
    /\ UNCHANGED <<template, nextXrefId, allocated, parent, create, update,
                   contextVariables, aliases, sideVars>>

IngestDeferView ==
    /\ status = "ingesting"
    /\ stack # <<>>
    /\ Top.f = "ingestDeferBlock"
    /\ Top.pc = "view"
    /\ Top.stage <= 4
    /\ LET block == DeferBlockOf(Top.node, Top.stage)
           viewXref == nextXrefId
       IN Let(DeferViewStart(JobOf(Top.unit), block), LAMBDA j :
             IF block.present
             THEN Commit(Top.unit, j,
                         IF j.thrown THEN {} ELSE {AllocateView(Top.unit, viewXref, {}, {})},
                         <<NodesFrame(viewXref, block.children,
                                      Top.path \o <<block.pos>>),
                           [Top EXCEPT !.pc = "template", !.cur = viewXref]>>
                         \o Tail(stack))
             ELSE Commit(Top.unit, j, {},
                         <<[Top EXCEPT !.stage = @ + 1]>> \o Tail(stack)))

IngestDeferViewEnd ==
    /\ status = "ingesting"
    /\ stack # <<>>
    /\ Top.f = "ingestDeferBlock"
    /\ Top.pc = "template"
    /\ Commit(Top.unit,
              DeferViewEnd(JobOf(Top.unit), Top.cur, DeferBlockOf(Top.node, Top.stage),
                           Top.stage, Top.path),
              {},
              <<[Top EXCEPT !.pc = "view", !.stage = @ + 1,
                            !.views = [@ EXCEPT ![Top.stage] = Top.cur]]>>
              \o Tail(stack))

IngestDeferEnd ==
    /\ status = "ingesting"
    /\ stack # <<>>
    /\ Top.f = "ingestDeferBlock"
    /\ Top.pc = "view"
    /\ Top.stage = 5
    /\ Commit(Top.unit, DeferEnd(JobOf(Top.unit), Top.node, Top.views, Top.path, RootXref),
              {}, Tail(stack))

-----------------------------------------------------------------------------
(* @for.                                                                   *)

\* the names the item view's index and count variables get for the aliases:
\* the variable's name, prefixed, and suffixed with the xref of the view
SuffixedName(name, xref) == "@" \o name \o "_" \o ToString(xref)

\* the xref whose suffix the aliases of the loop ingested into `unit` with
\* item view `repeaterView` use
AliasSuffixOfUnit(unit, repeaterView) == unit

AliasSuffix(unit, repeaterView) == repeaterView

Identical(l, r) == BinaryOperatorExpr("===", l, r, NullSpan)
NotIdentical(l, r) == BinaryOperatorExpr("!==", l, r, NullSpan)
Minus(l, r) == BinaryOperatorExpr("-", l, r, NullSpan)
Modulo(l, r) == BinaryOperatorExpr("%", l, r, NullSpan)
Lit(v) == LiteralExpr(v, NullSpan)

Alias(identifier, expression) ==
    [kind |-> "Alias", name |-> Null, identifier |-> identifier,
     expression |-> expression]

\* the context variables ingestForBlock sets on the item view
ForContextVariables(forBlock, suffix) ==
    LET cv == forBlock.contextVariables IN
    MapSet(MapSet(MapSet(MapSet(MapSet({}, forBlock.item.name, forBlock.item.value),
                                cv.index.name, cv.index.value),
                         cv.count.name, cv.count.value),
                  SuffixedName(cv.index.name, suffix), cv.index.value),
           SuffixedName(cv.count.name, suffix), cv.count.value)

\* the aliases ingestForBlock adds to the item view
ForAliases(forBlock, suffix) ==
    LET cv == forBlock.contextVariables
        indexName == SuffixedName(cv.index.name, suffix)
        countName == SuffixedName(cv.count.name, suffix)
    IN {Alias(cv.first.name, Identical(LexicalReadExpr(indexName), Lit(0))),
        Alias(cv.last.name, Identical(LexicalReadExpr(indexName),
                                      Minus(LexicalReadExpr(countName), Lit(1)))),
        Alias(cv.even.name, Identical(Modulo(LexicalReadExpr(indexName), Lit(2)), Lit(0))),
        Alias(cv.odd.name, NotIdentical(Modulo(LexicalReadExpr(indexName), Lit(2)), Lit(0)))}

\* ingestForBlock up to ingestNodes(repeaterView, forBlock.children): the job
\* part and the track expression
ForStart(j, forBlock, path, root) ==
    Let(ConvertAst(forBlock.trackBy, j.next + 1, root,
                   ConvertSourceSpan(forBlock.trackBy.span, Span(path, "whole"))),
        LAMBDA r : [j |-> Converted(AllocateXrefId(j), r), track |-> r.expr])

\* ingestForBlock after the item view (and the empty view, if any) is ingested
ForEnd(j, forBlock, repeaterView, emptyView, track, path, root) ==
    LET cv == forBlock.contextVariables
        varNames == [index |-> cv.index.name, count |-> cv.count.name,
                     first |-> cv.first.name, last |-> cv.last.name,
                     even |-> cv.even.name, odd |-> cv.odd.name,
                     implicit |-> forBlock.item.name]
    IN
    Let(IF emptyView # NoXref
        THEN IngestControlFlowInsertionPoint(j, emptyView, forBlock.empty,
                                             path \o <<Len(forBlock.children) + 1>>)
        ELSE [j |-> j, tagName |-> Null],
        LAMBDA ipEmpty :
    IF ipEmpty.j.thrown THEN ipEmpty.j
    ELSE IF forBlock.i18n.type \notin {"undefined", "BlockPlaceholder"}
    THEN Throw(ipEmpty.j, "AssertionError: Unhandled i18n metadata type or @for")
    ELSE IF forBlock.empty.present
              /\ forBlock.empty.i18n.type \notin {"undefined", "BlockPlaceholder"}
    THEN Throw(ipEmpty.j, "AssertionError: Unhandled i18n metadata type or @empty")
    ELSE Let(IngestControlFlowInsertionPoint(ipEmpty.j, repeaterView, forBlock, path),
             LAMBDA ip :
    IF ip.j.thrown THEN ip.j
    ELSE Let(ConvertAst(forBlock.expression, ip.j.next, root,
                        ConvertSourceSpan(forBlock.expression.span, Span(path, "whole"))),
             LAMBDA r :
    Let(Converted(PushCreate(ip.j, <<RepeaterCreateOp(repeaterView, emptyView, ip.tagName,
                                                      track, varNames, ipEmpty.tagName,
                                                      Span(path, "start"),
                                                      Span(path, "whole"))>>),
                  r),
        LAMBDA j2 :
           IF j2.thrown THEN j2
           ELSE PushUpdate(j2, <<RepeaterOp(repeaterView, repeaterView, r.expr,
                                            Span(path, "whole"))>>)))))

IngestForBlock ==
    /\ Dispatching({"ForLoopBlock"})
    /\ LET forBlock == Head(Top.nodes)
           repeaterView == nextXrefId
           suffix == AliasSuffix(Top.unit, repeaterView)
       IN Let(ForStart(JobOf(Top.unit), forBlock, NodePath, RootXref), LAMBDA r :
             Commit(Top.unit, r.j,
                    {AllocateView(Top.unit, repeaterView,
                                ForContextVariables(forBlock, suffix),
                                ForAliases(forBlock, suffix))},
                    <<NodesFrame(repeaterView, forBlock.children, NodePath),
                      [f |-> "ingestForBlock", unit |-> Top.unit, node |-> forBlock,
                       path |-> NodePath, repeaterView |-> repeaterView,
                       emptyView |-> NoXref, track |-> r.track, pc |-> "afterBody"],
                      Advanced>> \o Tail(stack)))

IngestForEmpty ==
    /\ status = "ingesting"
    /\ stack # <<>>
    /\ Top.f = "ingestForBlock"
    /\ Top.pc = "afterBody"
    /\ Top.node.empty.present
    /\ LET emptyView == nextXrefId
       IN Commit(Top.unit, AllocateXrefId(JobOf(Top.unit)),
                 {AllocateView(Top.unit, emptyView, {}, {})},
                 <<NodesFrame(emptyView, Top.node.empty.children,
                              Top.path \o <<Len(Top.node.children) + 1>>),
                   [Top EXCEPT !.pc = "afterEmpty", !.emptyView = emptyView]>>
                 \o Tail(stack))

IngestForEnd ==
    /\ status = "ingesting"
    /\ stack # <<>>
    /\ Top.f = "ingestForBlock"
    /\ Top.pc = "afterEmpty" \/ ~Top.node.empty.present
    /\ Commit(Top.unit,
              ForEnd(JobOf(Top.unit), Top.node, Top.repeaterView, Top.emptyView, Top.track,
                     Top.path, RootXref),
              {}, Tail(stack))


-----------------------------------------------------------------------------
(* The templates of the structural runs: every template of at most         *)
(* MaxNodes nodes built from the node kinds ingestNodes dispatches on.     *)

Cond == PropertyRead(ImplicitReceiver, "cond")
PipedText ==
    BoundText(ASTWithSource(Interpolation(<<"a", "b">>,
                  <<BindingPipe(PropertyRead(ImplicitReceiver, "x"), "async", <<>>)>>)),
              I18nUndefined)
\* {n, plural, =1 {one {{x}}} other {{m, select, ...}}}: the second var comes
\* after the placeholder in the document
IcuLeaf ==
    Icu(I18nIcuMessage,
        <<[name |-> "VAR_PLURAL", node |-> Text, pos |-> 1],
          [name |-> "VAR_SELECT", node |-> Text, pos |-> 3]>>,
        <<[name |-> "INTERPOLATION", node |-> PipedText, pos |-> 2]>>)

Leaves ==
    {Text, PipedText, Comment, Content(I18nUndefined, <<>>), IcuLeaf,
     SwitchBlock(Cond, <<>>),
     DeferredBlock(FALSE, <<>>, NoBlock, NoBlock, NoBlock, {}, {}, NoAst, NoAst)}

ElementOf(children) ==
    {Element(I18nUndefined, TRUE, <<>>, <<>>, <<>>, children),
     Element(I18nUndefined, FALSE, <<>>, <<>>, <<>>, children),
     Element(I18nMessage, TRUE, <<>>, <<>>, <<>>, children)}

TemplateOf(children) ==
    {Template(NG_TEMPLATE_TAG_NAME, I18nUndefined, <<>>, <<>>, <<>>, <<>>, <<>>, children),
     Template(NG_TEMPLATE_TAG_NAME, I18nMessage, <<>>, <<>>, <<>>, <<>>, <<>>, children)}

\* an @if: the last of several branches is the @else
IfOf(kids) ==
    IfBlock([i \in 1..Len(kids) |->
                IfBlockBranch(IF i > 1 /\ i = Len(kids) THEN NoAst ELSE Cond, Null,
                              kids[i])])

SwitchOf(kids) ==
    SwitchBlock(Cond, [i \in 1..Len(kids) |->
                          SwitchBlockCase(IF i > 1 /\ i = Len(kids) THEN NoAst ELSE Cond,
                                          kids[i])])

DeferKinds == {"loading", "placeholder", "error"}

\* a @defer whose connected blocks are, in document order, of the kinds given
DeferOf(main, kids, kinds) ==
    LET Sub(kind) == IF \E i \in 1..Len(kids) : kinds[i] = kind
                     THEN LET i == CHOOSE i \in 1..Len(kids) : kinds[i] = kind
                          IN DeferSubBlock(i + 1, kids[i])
                     ELSE NoBlock
    IN DeferredBlock(TRUE, main, Sub("loading"), Sub("placeholder"), Sub("error"),
                     {}, {}, NoAst, NoAst)

ForOf(children, kids) ==
    ForLoopBlock(PropertyRead(ImplicitReceiver, "item"),
                 PropertyRead(ImplicitReceiver, "items"), children,
                 IF kids = <<>> THEN NoBlock ELSE ForLoopBlockEmpty(kids[1]))

RECURSIVE Trees(_), Forests(_), KidsSeqs(_)
\* the sequences of nodes of n nodes in all
Forests(n) ==
    IF n = 0 THEN {<<>>}
    ELSE UNION {{<<t>> \o f : t \in Trees(k), f \in Forests(n - k)} : k \in 1..n}

\* the sequences of child lists of branches, cases or connected blocks, each
\* of which counts as one node, of n nodes in all
KidsSeqs(n) ==
    IF n = 0 THEN {<<>>}
    ELSE UNION {{<<c>> \o r : c \in Forests(k - 1), r \in KidsSeqs(n - k)} : k \in 1..n}

\* the nodes of n nodes in all, itself included
Trees(n) ==
    (IF n = 1 THEN Leaves ELSE {})
    \cup UNION {ElementOf(c) : c \in Forests(n - 1)}
    \cup UNION {TemplateOf(c) : c \in Forests(n - 1)}
    \cup {IfOf(kids) : kids \in KidsSeqs(n)}
    \cup (IF n > 1 THEN {SwitchOf(kids) : kids \in KidsSeqs(n - 1)} ELSE {})
    \cup UNION {UNION {{DeferOf(main, kids, kinds) :
                          kinds \in {s \in [1..Len(kids) -> DeferKinds] :
                                        \A a, b \in 1..Len(kids) : s[a] = s[b] => a = b}} :
                        main \in Forests(k), kids \in {x \in KidsSeqs(n - 1 - k) : Len(x) <= 3}} :
                k \in 0..(n - 1)}
    \cup UNION {{ForOf(c, kids) :
                    c \in Forests(k), kids \in {x \in KidsSeqs(n - 1 - k) : Len(x) <= 1}} :
                k \in 0..(n - 1)}

\* the templates of at most n nodes
Templates(n) == UNION {Forests(k) : k \in 0..n}

IngestComponent == IngestComponentOf(Templates(MaxNodes))

Next ==
    \/ IngestComponent
    \/ ReturnFromNodes
    \/ IngestUnsupported
    \/ IngestTextNode
    \/ IngestBoundTextNode
    \/ IngestContentNode
    \/ IngestIcuNode
    \/ IngestElementStart
    \/ IngestElementEnd
    \/ IngestTemplateStart
    \/ IngestTemplateEnd
    \/ IngestIfBlock
    \/ IngestIfBranch
    \/ IngestIfEnd
    \/ IngestSwitchBlock
    \/ IngestSwitchCase
    \/ IngestSwitchEnd
    \/ IngestDeferBlock
    \/ IngestDeferView
    \/ IngestDeferViewEnd
    \/ IngestDeferEnd
    \/ IngestForBlock
    \/ IngestForEmpty
    \/ IngestForEnd

Spec == Init /\ [][Next]_vars


-----------------------------------------------------------------------------
(* Properties of ingestion.                                                *)

Min(a, b) == IF a < b THEN a ELSE b

\* two document positions of which neither is inside the other
Diverge(p, q) == \E k \in 1..Min(Len(p), Len(q)) : p[k] # q[k]

\* of two diverging positions, p comes first in the document
Before(p, q) ==
    LET k == CHOOSE k \in 1..Min(Len(p), Len(q)) :
                p[k] # q[k] /\ \A m \in 1..(k - 1) : p[m] = q[m]
    IN p[k] < q[k]

Units == DOMAIN create

\* the pairs of create ops of a unit that come from two different source
\* nodes, neither inside the other, the earlier op from the later node
OutOfDocumentOrder(u, i, j) ==
    /\ i < j
    /\ Diverge(OpSpan(create[u][i]).path, OpSpan(create[u][j]).path)
    /\ ~Before(OpSpan(create[u][i]).path, OpSpan(create[u][j]).path)

\* a step only appends to the lists of every unit
OnlyAppends ==
    \A u \in Units : IsPrefix(create[u], create'[u]) /\ IsPrefix(update[u], update'[u])

\* the create ops of every unit are in the document order of their nodes
DocumentOrder ==
    \A u \in Units : \A i, j \in 1..Len(create[u]) : ~OutOfDocumentOrder(u, i, j)

AppendsOrBrackets ==
    \A u \in Units :
        /\ IsPrefix(update[u], update'[u])
        /\ \/ IsPrefix(create[u], create'[u])
           \/ /\ Len(create'[u]) = Len(create[u]) + 2
              /\ SubSeq(create'[u], 2, Len(create[u]) + 1) = create[u]
              /\ create'[u][1].kind = "I18nStart"
              /\ create'[u][Len(create'[u])].kind = "I18nEnd"

IsDeferTemplate(op) ==
    op.kind = "Template" /\ op.functionNameSuffix # <<>> /\ op.functionNameSuffix[1] = "Defer"

IsIcuText(op) == op.kind = "Text" /\ op.icuPlaceholder # Null

\* the create ops of every unit are in the document order of their nodes, but
\* for the templates of the blocks of one @defer and the texts of one ICU
DocumentOrderButDeferAndIcu ==
    \A u \in Units : \A i, j \in 1..Len(create[u]) :
        OutOfDocumentOrder(u, i, j) =>
            \/ IsDeferTemplate(create[u][i]) /\ IsDeferTemplate(create[u][j])
            \/ IsIcuText(create[u][i]) /\ IsIcuText(create[u][j])

Operands(x) ==
    CASE x.e \in {"ReadProp", "SafePropertyRead"} -> <<x.receiver>>
      [] x.e = "WriteProp" -> <<x.receiver, x.value>>
      [] x.e = "WriteKey" -> <<x.receiver, x.index, x.value>>
      [] x.e \in {"ReadKey", "SafeKeyedRead"} -> <<x.receiver, x.index>>
      [] x.e = "InvokeFunction" -> <<x.fn>> \o x.args
      [] x.e = "SafeInvokeFunction" -> <<x.receiver>> \o x.args
      [] x.e = "UnaryOperator" -> <<x.expr>>
      [] x.e = "BinaryOperator" -> <<x.lhs, x.rhs>>
      [] x.e = "LiteralMap" -> [i \in 1..Len(x.entries) |-> x.entries[i].value]
      [] x.e = "LiteralArray" -> x.entries
      [] x.e = "Conditional" -> <<x.condition, x.trueCase, x.falseCase>>
      [] x.e = "PipeBinding" -> x.args
      [] x.e = "Not" -> <<x.condition>>
      [] x.e = "Interpolation" -> x.expressions
      [] OTHER -> <<>>

RECURSIVE PipeTargets(_), PipeTargetsAll(_)
\* the ids of the pipe bindings of an expression, one entry per pipe binding
PipeTargets(x) ==
    (IF x.e = "PipeBinding" THEN <<x.target>> ELSE <<>>) \o PipeTargetsAll(Operands(x))

PipeTargetsAll(xs) ==
    IF xs = <<>> THEN <<>> ELSE PipeTargets(Head(xs)) \o PipeTargetsAll(Tail(xs))

RECURSIVE LexicalNames(_)
\* the names an expression reads lexically
LexicalNames(x) ==
    (IF x.e = "LexicalRead" THEN {x.name} ELSE {})
    \cup UNION {LexicalNames(Operands(x)[i]) : i \in 1..Len(Operands(x))}

\* the expressions an op holds
OpExprs(op) ==
    SelectSeq(CASE op.kind = "InterpolateText" -> <<op.interpolation>>
                [] op.kind = "Binding" -> <<op.expression>>
                [] op.kind = "Conditional" ->
                      <<op.test>> \o [i \in 1..Len(op.conditions) |-> op.conditions[i].expr]
                [] op.kind = "Repeater" -> <<op.collection>>
                [] op.kind = "DeferWhen" -> <<op.expr>>
                [] op.kind = "RepeaterCreate" -> <<op.track>>
                [] op.kind = "Listener" ->
                      [i \in 1..Len(op.handlerOps) |-> op.handlerOps[i].expr]
                [] OTHER -> <<>>,
              LAMBDA x : "e" \in DOMAIN x)

\* the kinds of op that are handed a fresh id for themselves
OwnerKinds ==
    {"ElementStart", "Template", "Text", "I18nStart", "Projection", "Defer",
     "I18nAttributes", "IcuStart", "RepeaterCreate"}

RECURSIVE OwnedBy(_)
\* the ids handed to the ops of a list and to the pipe bindings in them
OwnedBy(ops) ==
    IF ops = <<>> THEN <<>>
    ELSE (IF Head(ops).kind \in OwnerKinds THEN <<Head(ops).xref>> ELSE <<>>)
         \o PipeTargetsAll(OpExprs(Head(ops)))
         \o OwnedBy(Tail(ops))

Owned(u) == OwnedBy(create[u] \o update[u])

NoDuplicates(s) == \A a, b \in 1..Len(s) : s[a] = s[b] => a = b

\* C2: the ids handed out in a job are pairwise distinct: no id is handed out
\* twice, and no two of the elements, views, text ops, i18n blocks,
\* projections, defer ops, i18n-attributes ops and pipe bindings of the job,
\* of whatever units, hold the same id.
C2_XrefIdsDistinct ==
    /\ NoDuplicates(allocated)
    /\ \A i \in 1..Len(allocated) : allocated[i] < nextXrefId
    /\ \A u \in Units :
          /\ NoDuplicates(Owned(u))
          /\ Range(Owned(u)) \subseteq Range(allocated)
          /\ \A v \in Units \ {u} : Range(Owned(u)) \cap Range(Owned(v)) = {}

\* ingestion has returned from a template with an element, a child view, a
\* text op and a pipe binding, each with its id
C2_Witness ==
    /\ status = "done"
    /\ Cardinality(Units) > 1
    /\ \E u \in Units : \E i \in 1..Len(create[u]) : create[u][i].kind = "ElementStart"
    /\ \E u \in Units : \E i \in 1..Len(create[u]) : create[u][i].kind = "Text"
    /\ \E u \in Units : \E i \in 1..Len(update[u]) :
          PipeTargetsAll(OpExprs(update[u][i])) # <<>>


\* the views form a tree under the root
ParentTree ==
    /\ DOMAIN parent = Units
    /\ parent[RootXref] = NoXref
    /\ \A u \in Units \ {RootXref} : parent[u] \in Units /\ parent[u] < u

\* a step leaves the parent of every view alone, and a view it allocates is a
\* child of the unit the running handler ingests into
ParentSetOnce ==
    /\ \A u \in DOMAIN parent : u \in DOMAIN parent' /\ parent'[u] = parent[u]
    /\ \A u \in DOMAIN parent' \ DOMAIN parent : stack # <<>> /\ parent'[u] = Top.unit

\* C3: every unit but the root has exactly one parent, which is the unit that
\* was being ingested into when the unit was allocated and which never
\* changes; the units form a tree rooted at the root unit.
C3_ParentSetAtAllocation == []ParentTree /\ [][ParentSetOnce]_vars

\* ingestion has returned with a view under the root and a view under a view
C3_Witness ==
    /\ status = "done"
    /\ \E u, v \in Units : parent[u] = RootXref /\ parent[v] = u


\* ingestNodes has just got control back from the handler of a switch block
\* that has no case
AfterEmptySwitch ==
    /\ status = "ingesting"
    /\ stack # <<>>
    /\ Top.f = "ingestNodes"
    /\ Top.last.kind = "SwitchBlock"
    /\ Len(Top.last.cases) = 0

\* C5: ingesting a switch block with no case leaves the create list and the
\* update list of the unit (and of every other unit) as they were, allocates
\* no view and no id, and emits no conditional op.
C5_EmptySwitchIngestsNothing ==
    AfterEmptySwitch =>
        /\ create = Top.snap.create
        /\ update = Top.snap.update
        /\ nextXrefId = Top.snap.next

\* an empty switch block has been ingested into a unit that already had ops
C5_Witness ==
    /\ AfterEmptySwitch
    /\ create[Top.unit] # <<>>
    /\ update[Top.unit] # <<>>

\* the step is the end of ingestElement for the element of the frame on top
EndsElement ==
    /\ status = "ingesting"
    /\ stack # <<>>
    /\ Top.f = "ingestElement"
    /\ stack' # stack

\* the step leaves an element-end op with the id of the element's start op
\* and the span of its end tag, or of its start tag when it has no end tag,
\* as the last op of the create list
ElementEndIsLast ==
    EndsElement =>
        LET ops == create'[Top.unit]
            endOp == ops[Len(ops)]
        IN /\ Len(ops) = Len(create[Top.unit]) + (IF Top.i18nBlockId = NoXref THEN 1 ELSE 2)
           /\ endOp.kind = "ElementEnd"
           /\ endOp.xref = Top.id
           /\ endOp.sourceSpan =
                 Span(Top.path, IF Top.node.hasEnd THEN "end" ELSE "start")
           /\ \E i \in 1..Len(create[Top.unit]) :
                 /\ create[Top.unit][i].kind = "ElementStart"
                 /\ create[Top.unit][i].xref = Top.id

\* every element-end op closes an element-start op before it, and no two
\* close the same one
ElementEndsMatch ==
    \A u \in Units : \A i \in 1..Len(create[u]) :
        create[u][i].kind = "ElementEnd" =>
            /\ \E k \in 1..(i - 1) :
                  create[u][k].kind = "ElementStart" /\ create[u][k].xref = create[u][i].xref
            /\ \A k \in 1..Len(create[u]) :
                  create[u][k].kind = "ElementEnd" /\ create[u][k].xref = create[u][i].xref
                  => k = i

\* C6: the element-end op of an element is the last create op ingestElement
\* produces for it and carries the id of its element-start op; its span is
\* the span of the end tag if the element has one and the span of the start
\* tag otherwise.
C6_ElementEndClosesElement == [][ElementEndIsLast]_vars /\ []ElementEndsMatch

\* ingestion has returned with an element closed at its end tag and an element
\* without an end tag closed at its start tag
C6_Witness ==
    /\ status = "done"
    /\ \E u, v \in Units : \E i \in 1..Len(create[u]), k \in 1..Len(create[v]) :
          /\ create[u][i].kind = "ElementEnd"
          /\ create[u][i].sourceSpan.part = "end"
          /\ create[v][k].kind = "ElementEnd"
          /\ create[v][k].sourceSpan.part = "start"

\* the names of the index and count variables of the loops
IndexAndCountNames == {"$index", "$count"}

\* the aliases of a view read the index and count variables suffixed with the
\* view's own xref, which the view has, and no other view's
AliasesReadOwnVariables(v) ==
    \A a \in aliases[v] :
        /\ LexicalNames(a.expression) # {}
        /\ LexicalNames(a.expression) \subseteq {SuffixedName(n, v) : n \in IndexAndCountNames}
        /\ LexicalNames(a.expression) \subseteq {p[1] : p \in contextVariables[v]}
        /\ \A w \in Units \ {v} :
              LexicalNames(a.expression) \cap {SuffixedName(n, w) : n \in IndexAndCountNames}
              = {}

\* C7: at any depth of nesting, the aliases $first, $last, $even and $odd of a
\* loop's item view read only the index and count variables named with the
\* suffix of that view's own xref, never those of an outer or inner loop.
C7_AliasesReadOwnLevel ==
    \A v \in Units :
        /\ AliasesReadOwnVariables(v)
        /\ aliases[v] # {} =>
              {a.identifier : a \in aliases[v]} = {"$first", "$last", "$even", "$odd"}

\* ingestion has returned from a loop inside a loop
C7_Witness ==
    /\ status = "done"
    /\ \E v, w \in Units : parent[w] = v /\ aliases[v] # {} /\ aliases[w] # {}


-----------------------------------------------------------------------------
(* Defer blocks with triggers.                                             *)

\* the trigger kinds the defer blocks below are given
TriggerKinds == {"idle", "timer", "hover", "when"}

WhenValues ==
    {PropertyRead(ImplicitReceiver, "cond"),
     Interpolation(<<"", "">>, <<PropertyRead(ImplicitReceiver, "cond")>>)}

\* the templates of one defer block, with each set of triggers and of
\* prefetch triggers
DeferTemplates ==
    {<<DeferredBlock(TRUE, <<>>, NoBlock, NoBlock, NoBlock, triggers, prefetchTriggers,
                     IF "when" \in triggers THEN w ELSE NoAst,
                     IF "when" \in prefetchTriggers THEN pw ELSE NoAst)>> :
        <<triggers, prefetchTriggers, w, pw>> \in
            (SUBSET TriggerKinds) \X (SUBSET TriggerKinds) \X WhenValues \X WhenValues}

IngestComponentDefer == IngestComponentOf(DeferTemplates)

NextDefer ==
    \/ IngestComponentDefer
    \/ ReturnFromNodes
    \/ IngestDeferBlock
    \/ IngestDeferView
    \/ IngestDeferViewEnd
    \/ IngestDeferEnd

SpecDefer == Init /\ [][NextDefer]_vars

\* the ops of a kind a step adds to a list
Added(old, new, kind) ==
    SelectSeq(SubSeq(new, Len(old) + 1, Len(new)), LAMBDA op : op.kind = kind)

\* the step is the end of ingestDeferBlock, reached without an error
EndsDefer ==
    /\ status = "ingesting"
    /\ stack # <<>>
    /\ Top.f = "ingestDeferBlock"
    /\ Top.stage = 5
    /\ stack' # stack
    /\ status' = "ingesting"

\* the number of entries of a sequence that satisfy a test
Count(s, Test(_)) == Len(SelectSeq(s, Test))

\* the ops of the step are the triggers of the two sets, each with the
\* prefetch flag of its set, and one more idle trigger without a span and
\* with prefetch = false exactly when the regular set is empty
TriggersOfDefer ==
    EndsDefer =>
        LET regular == Top.node.triggers
            prefetching == Top.node.prefetchTriggers
            onOps == Added(create[Top.unit], create'[Top.unit], "DeferOn")
            whenOps == Added(update[Top.unit], update'[Top.unit], "DeferWhen")
            synthesized == SelectSeq(onOps, LAMBDA op : op.sourceSpan = NullSpan)
            OnOpsOf(set, prefetch) ==
                SelectSeq(onOps, LAMBDA op : op.sourceSpan # NullSpan /\ op.prefetch = prefetch)
            WhenOpsOf(prefetch) == SelectSeq(whenOps, LAMBDA op : op.prefetch = prefetch)
            Matches(set, prefetch) ==
                /\ Len(OnOpsOf(set, prefetch)) = Cardinality(set \ {"when"})
                /\ {op.trigger.kind : op \in Range(OnOpsOf(set, prefetch))}
                   = {Trigger(k).kind : k \in set \ {"when"}}
                /\ Len(WhenOpsOf(prefetch)) = (IF "when" \in set THEN 1 ELSE 0)
        IN /\ Len(synthesized) = (IF regular = {} THEN 1 ELSE 0)
           /\ \A i \in 1..Len(synthesized) :
                 synthesized[i].trigger.kind = "Idle" /\ synthesized[i].prefetch = FALSE
           /\ Matches(regular, FALSE)
           /\ Matches(prefetching, TRUE)

\* C4: a defer block whose regular trigger set is empty gets exactly one
\* synthesized idle trigger with prefetch = false, whether or not it has
\* prefetch triggers; one whose regular set is not empty gets none; the
\* prefetch pass synthesizes nothing; the ops of the prefetch triggers have
\* prefetch = true and those of the regular triggers prefetch = false.
C4_IdleTriggerSynthesized == [][TriggersOfDefer]_vars

\* a defer block with prefetch triggers and no regular trigger has been
\* ingested and got its idle trigger
C4_Witness ==
    /\ status = "done"
    /\ template[1].triggers = {}
    /\ template[1].prefetchTriggers = {"timer", "when"}
    /\ \E i \in 1..Len(create[RootXref]) :
          /\ create[RootXref][i].kind = "DeferOn"
          /\ create[RootXref][i].trigger.kind = "Idle"
          /\ create[RootXref][i].prefetch = FALSE
    /\ \E i \in 1..Len(update[RootXref]) :
          update[RootXref][i].kind = "DeferWhen" /\ update[RootXref][i].prefetch = TRUE


-----------------------------------------------------------------------------
(* Expression lowering on its own.                                         *)

ReadNames == {"a", "$event", "$any"}

RECURSIVE Asts(_)
\* the expressions nested at most d deep
Asts(d) ==
    IF d = 0 THEN {ImplicitReceiver, ThisReceiver, LiteralPrimitive(1)}
    ELSE Asts(d - 1)
         \cup {PropertyRead(r, n) : r \in Asts(d - 1), n \in ReadNames}
         \cup {KeyedRead(r, LiteralPrimitive(1)) : r \in Asts(d - 1)}
         \cup {Call(r, <<>>) : r \in Asts(d - 1)}
         \cup {PrefixNot(r) : r \in Asts(d - 1)}
         \cup {NonNullAssert(r) : r \in Asts(d - 1)}
         \cup {ASTWithSource(r) : r \in Asts(d - 1)}
         \cup {BindingPipe(r, "async", <<>>) : r \in Asts(d - 1)}

\* a call convertAst(ast, job, baseSourceSpan) on a fresh job
LowerExpression ==
    /\ status = "idle"
    /\ astIn = NoAst
    /\ \E ast \in Asts(MaxExprDepth), base \in {NullSpan, Span(<<1>>, "whole")} :
          Let(ConvertAst(ast, nextXrefId, RootXref, base), LAMBDA r :
             /\ astIn' = ast
             /\ lowered' = r.expr
             /\ nextXrefId' = r.next
             /\ allocated' = allocated \o IdsSeq(nextXrefId, r.next))
    /\ UNCHANGED <<status, template, parent, create, update, contextVariables, aliases,
                   stack, error, hostVars, appVars, transformVars, schedulerVars>>

NextExpr == LowerExpression

SpecExpr == Init /\ [][NextExpr]_vars

RECURSIVE Unwrapped(_)
\* the expression inside the wrappers that lowering looks through
Unwrapped(ast) ==
    IF ast.type = "ASTWithSource" THEN Unwrapped(ast.ast)
    ELSE IF ast.type = "NonNullAssert" THEN Unwrapped(ast.expression)
    ELSE ast

\* ast is a property read the claim is about: its receiver is implicit or `this`
IsReceiverlessRead(ast) ==
    ast.type = "PropertyRead" /\ ast.receiver.type \in {"ImplicitReceiver", "ThisReceiver"}

\* out is what the claim says the property read ast lowers to
LoweredRead(ast, out) ==
    /\ ast.receiver.type = "ImplicitReceiver" => out = LexicalReadExpr(ast.name)
    /\ ast.receiver.type = "ThisReceiver" /\ ast.name \notin {"$event", "$any"} =>
          out = LexicalReadExpr(ast.name)
    /\ ast.receiver.type = "ThisReceiver" /\ ast.name \in {"$event", "$any"} =>
          /\ out.e = "ReadProp"
          /\ out.receiver = ContextExpr(RootXref)
          /\ out.name = ast.name

\* C8: a property read with an implicit receiver lowers to a bare lexical read
\* of its name, whatever the name; one with an explicit `this` receiver lowers
\* to a bare lexical read of its name unless the name is $event or $any, and
\* then to a property read on the context expression of the root view.  This
\* holds of the expression lowered and of such a property read that is its
\* receiver, its operand or its piped value.
C8_PropertyReadLowering ==
    LET ast == Unwrapped(astIn) IN
    /\ IsReceiverlessRead(ast) => LoweredRead(ast, lowered)
    /\ ast.type = "PropertyRead" /\ ~IsReceiverlessRead(ast)
         /\ IsReceiverlessRead(Unwrapped(ast.receiver)) =>
          lowered.e = "ReadProp" /\ LoweredRead(Unwrapped(ast.receiver), lowered.receiver)
    /\ ast.type = "PrefixNot" /\ IsReceiverlessRead(Unwrapped(ast.expression)) =>
          lowered.e = "Not" /\ LoweredRead(Unwrapped(ast.expression), lowered.condition)
    /\ ast.type = "BindingPipe" /\ IsReceiverlessRead(Unwrapped(ast.exp)) =>
          lowered.e = "PipeBinding" /\ LoweredRead(Unwrapped(ast.exp), lowered.args[1])

\* `this.$event` has been lowered to a property read on the root's context
C8_Witness ==
    /\ astIn = PropertyRead(ThisReceiver, "$event")
    /\ lowered.e = "ReadProp"
    /\ lowered.receiver = ContextExpr(RootXref)


-----------------------------------------------------------------------------
(* Elements and templates with bindings.                                   *)

StaticAttributes ==
    {TextAttribute("title", I18nUndefined), TextAttribute("alt", I18nMessage),
     TextAttribute("lang", I18nContainer(0))}

RECURSIVE AttrSeqs(_)
\* the lists of at most n static attributes
AttrSeqs(n) ==
    IF n = 0 THEN {<<>>}
    ELSE AttrSeqs(n - 1)
         \cup {Append(a, t) : a \in {b \in AttrSeqs(n - 1) : Len(b) = n - 1},
                              t \in StaticAttributes}

InputSeqs ==
    {<<>>,
     <<BoundAttribute("Property", "value", PropertyRead(ImplicitReceiver, "x"),
                      I18nUndefined)>>,
     <<BoundAttribute("Attribute", "title", PropertyRead(ImplicitReceiver, "x"),
                      I18nMessage)>>}

OutputSeqs ==
    {<<>>, <<BoundEvent("Regular", "click", Null, PropertyRead(ImplicitReceiver, "h"))>>}

ElementsWithBindings ==
    {Element(I18nUndefined, TRUE, a, i, o, <<>>) :
        a \in AttrSeqs(MaxAttrs), i \in InputSeqs, o \in OutputSeqs}

TemplatesWithBindings ==
    {Template(NG_TEMPLATE_TAG_NAME, I18nUndefined, <<>>, a, i, o, <<>>, <<>>) :
        a \in AttrSeqs(MaxAttrs), i \in InputSeqs, o \in OutputSeqs}
    \cup {Template("div", I18nUndefined, a, <<>>, i, o, <<>>, <<>>) :
            a \in AttrSeqs(MaxAttrs), i \in InputSeqs, o \in OutputSeqs}

\* one element or template, or one element alone in an @if
BindingTemplates ==
    {<<n>> : n \in ElementsWithBindings \cup TemplatesWithBindings}
    \cup {<<IfOf(<<<<n>>>>)>> : n \in ElementsWithBindings}

IngestComponentBindings == IngestComponentOf(BindingTemplates)

NextBind ==
    \/ IngestComponentBindings
    \/ ReturnFromNodes
    \/ IngestElementStart
    \/ IngestElementEnd
    \/ IngestTemplateStart
    \/ IngestTemplateEnd
    \/ IngestIfBlock
    \/ IngestIfBranch
    \/ IngestIfEnd

SpecBind == Init /\ [][NextBind]_vars

\* the step is the start of the handler of a node of the kind, bindings
\* included, reached without an error
Ingests(kind) ==
    /\ Dispatching({kind})
    /\ stack' # stack
    /\ status' = "ingesting"

\* the ops the step adds to the create list of the unit
AddedCreateOps ==
    SubSeq(create'[Top.unit], Len(create[Top.unit]) + 1, Len(create'[Top.unit]))

\* the ops the step adds to the update list of the unit
AddedUpdateOps ==
    SubSeq(update'[Top.unit], Len(update[Top.unit]) + 1, Len(update'[Top.unit]))

\* every static attribute of the element gets an extracted-attribute op
StaticAttributesExtracted ==
    Ingests("Element") =>
        \A i \in 1..Len(Head(Top.nodes).attributes) :
            \E k \in 1..Len(AddedCreateOps) :
                /\ AddedCreateOps[k].kind = "ExtractedAttribute"
                /\ AddedCreateOps[k].name = Head(Top.nodes).attributes[i].name

StaticAttributesBound ==
    Ingests("Element") =>
        LET attrs == Head(Top.nodes).attributes
            texts == SelectSeq(AddedUpdateOps, LAMBDA op : op.isTextAttribute)
        IN /\ \A k \in 1..Len(AddedCreateOps) : AddedCreateOps[k].kind # "ExtractedAttribute"
           /\ \A k \in 1..Len(AddedUpdateOps) : AddedUpdateOps[k].kind = "Binding"
           /\ Len(texts) = Len(attrs)
           /\ Len(AddedUpdateOps) = Len(attrs) + Len(Head(Top.nodes).inputs)
           /\ \A i \in 1..Len(attrs) :
                 /\ AddedUpdateOps[i] = texts[i]
                 /\ texts[i].target = nextXrefId
                 /\ texts[i].bindingKind = "Attribute"
                 /\ texts[i].name = attrs[i].name
                 /\ texts[i].expression = LiteralExpr(attrs[i].value, NullSpan)

I18nAttributesOnce ==
    Ingests("Element") \/ Ingests("Template") =>
        /\ Count(AddedCreateOps, LAMBDA op : op.kind = "I18nAttributes") = 1
        /\ \A k \in 1..Len(AddedCreateOps) :
              AddedCreateOps[k].kind = "I18nAttributes" => AddedCreateOps[k].target = nextXrefId

-----------------------------------------------------------------------------
(* Host bindings: ingestHostBinding lowers a flat HostBindingInput into a  *)
(* single-unit job. The input object outlives the call, so the model keeps *)
(* it in hostInput and collects the jobs of successive calls in hostJobs.  *)

\* number of entries of input.properties
MaxHostProps == 2

\* number of calls of ingestHostBinding on the same input object
MaxIngestions == 2

\* the property names of the model
HostNames == {"id", "attr.id", "attr.attr.id"}

\* name.startsWith('attr.')
StartsWithAttr(name) == name \in {"attr.id", "attr.attr.id", "attr.href"}

\* name.substring('attr.'.length)
SubstringAttr(name) ==
    CASE name = "attr.attr.id" -> "attr.id"
      [] name = "attr.id" -> "id"
      [] name = "attr.href" -> "href"
      [] OTHER -> name

ParsedProperty(name, isAnimation, expression, sourceSpan) ==
    [name |-> name, isAnimation |-> isAnimation, expression |-> expression,
     sourceSpan |-> sourceSpan]

ParsedEvent(name, targetOrPhase, type, handler, sourceSpan, handlerSpan) ==
    [name |-> name, targetOrPhase |-> targetOrPhase, type |-> type, handler |-> handler,
     sourceSpan |-> sourceSpan, handlerSpan |-> handlerSpan]

\* a `T[]|null`: null, or the array xs
NullList == [isNull |-> TRUE, items |-> <<>>]
List(xs) == [isNull |-> FALSE, items |-> xs]

\* properties and events are arrays or null; attributes is the sequence of the
\* object's entries
HostBindingInput(componentName, componentSelector, properties, attributes, events) ==
    [componentName |-> componentName, componentSelector |-> componentSelector,
     properties |-> properties, attributes |-> attributes, events |-> events]

\* `xs ?? []`
OrEmpty(xs) == IF xs.isNull THEN <<>> ELSE xs.items

\* bindingParser.calcPossibleSecurityContexts(selector, name, isAttribute)
\*     .filter(context => context !== SecurityContext.NONE)
HostSecurityContexts(selector, name, isAttribute) ==
    SelectSeq(<<SecurityContextOf(selector, name, isAttribute)>>, LAMBDA c : c # "NONE")

\* new HostBindingCompilationJob(...): one root unit, no views
HostBindingCompilationJob == JobPart(RootXref + 1, <<RootXref>>, <<>>, <<>>)

\* ingestHostProperty(job, property, bindingKind, securityContexts)
IngestHostProperty(j, property, bindingKind, securityContexts) ==
    LET ast == property.expression.ast
        Bound(expression) ==
            BindingOp(RootXref, bindingKind, property.name, expression, Null,
                      securityContexts, FALSE, FALSE, Null, Null, property.sourceSpan)
    IN IF ast.type = "Interpolation"
       THEN Let(ConvertAll(ast.expressions, j.next, RootXref, property.sourceSpan),
                LAMBDA r :
                   IF r.thrown THEN Converted(j, Conv(r.expr, r.next))
                   ELSE PushUpdate(Converted(j, Conv(LiteralExpr(0, NullSpan), r.next)),
                                   <<Bound(InterpolationExpr(ast.strings, r.exprs, <<>>))>>))
       ELSE Let(ConvertAst(ast, j.next, RootXref, property.sourceSpan), LAMBDA r :
                   IF IsThrown(r.expr) THEN Converted(j, r)
                   ELSE PushUpdate(Converted(j, r), <<Bound(r.expr)>>))

\* ingestHostAttribute(job, name, value, securityContexts)
IngestHostAttribute(j, name, value, securityContexts) ==
    PushUpdate(j, <<BindingOp(RootXref, "Attribute", name, value, Null, securityContexts,
                              TRUE, FALSE, Null, Null, ExprSpan(value))>>)

\* ingestHostEvent(job, event)
IngestHostEvent(j, event) ==
    LET phase == IF event.type = "Regular" THEN Null ELSE event.targetOrPhase
        target == IF event.type = "Regular" THEN event.targetOrPhase ELSE Null
    IN Let(MakeListenerHandlerOps(event.handler, j.next, RootXref, event.handlerSpan),
           LAMBDA h :
              Let(Converted(j, h), LAMBDA j2 :
                 IF j2.thrown THEN j2
                 ELSE PushCreate(j2, <<ListenerOp(RootXref, RootXref, event.name, Null,
                                                  h.ops, phase, target, TRUE,
                                                  event.sourceSpan)>>)))

\* the property the first loop of ingestHostBinding leaves behind: the name
\* of an `attr.` property is overwritten with the rest of the name
HostPropertyAfter(property) ==
    IF StartsWithAttr(property.name)
    THEN [property EXCEPT !.name = SubstringAttr(property.name)]
    ELSE property

HostBindingKindIgnoringPrefix(property) ==
    IF property.isAnimation THEN "Animation" ELSE "Property"

\* the binding kind the first loop of ingestHostBinding picks for a property
HostBindingKind(property) ==
    IF property.isAnimation THEN "Animation"
    ELSE IF StartsWithAttr(property.name) THEN "Attribute"
    ELSE "Property"

RECURSIVE HostProperties(_, _, _, _)
\* the loop over input.properties, from the k-th on: the properties as the
\* loop leaves them and the job; the loop ends at the first Error thrown
HostProperties(props, k, j, selector) ==
    IF k > Len(props) \/ j.thrown THEN [properties |-> props, job |-> j]
    ELSE Let(HostPropertyAfter(props[k]), LAMBDA property :
            HostProperties(
                [props EXCEPT ![k] = property], k + 1,
                IngestHostProperty(
                    j, property, HostBindingKind(props[k]),
                    HostSecurityContexts(selector, property.name,
                                         HostBindingKind(props[k]) = "Attribute")),
                selector))

RECURSIVE HostAttributes(_, _, _)
\* the loop over Object.entries(input.attributes)
HostAttributes(attrs, j, selector) ==
    IF attrs = <<>> \/ j.thrown THEN j
    ELSE HostAttributes(
            Tail(attrs),
            IngestHostAttribute(j, Head(attrs).name, Head(attrs).value,
                                HostSecurityContexts(selector, Head(attrs).name, TRUE)),
            selector)

RECURSIVE HostEvents(_, _)
\* the loop over input.events
HostEvents(events, j) ==
    IF events = <<>> \/ j.thrown THEN j
    ELSE HostEvents(Tail(events), IngestHostEvent(j, Head(events)))

\* ingestHostBinding(input, bindingParser, constantPool): the input as the
\* call leaves it, and the job returned (or the job that threw)
IngestHostBindingOf(input) ==
    Let(HostProperties(OrEmpty(input.properties), 1, HostBindingCompilationJob,
                       input.componentSelector),
        LAMBDA p :
           [input |-> IF input.properties.isNull THEN input
                      ELSE [input EXCEPT !.properties = List(p.properties)],
            job |-> HostEvents(OrEmpty(input.events),
                               HostAttributes(input.attributes, p.job,
                                              input.componentSelector))])

\* the inputs of the model
HostExpressions ==
    {ASTWithSource(PropertyRead(ImplicitReceiver, "a")),
     ASTWithSource(Interpolation(<<"", "">>, <<PropertyRead(ImplicitReceiver, "a")>>))}

HostProperty(n) ==
    {ParsedProperty(name, anim, x, Span(<<n>>, name)) :
        name \in HostNames, anim \in BOOLEAN, x \in HostExpressions}

RECURSIVE HostPropertySeqs(_)
HostPropertySeqs(n) ==
    IF n = 0 THEN {<<>>}
    ELSE {<<>>} \cup {ps \o <<p>> : ps \in HostPropertySeqs(n - 1) \ {<<>>}, p \in HostProperty(n)}
                \cup {<<p>> : p \in HostProperty(1)}

HostEventSeqs ==
    {<<>>,
     <<ParsedEvent("click", Null, "Regular", ASTWithSource(Call(PropertyRead(ImplicitReceiver, "a"), <<>>)),
                   Span(<<>>, "click"), Span(<<>>, "handler"))>>,
     <<ParsedEvent("@anim", "done", "Animation", ASTWithSource(Chain(<<>>)),
                   Span(<<>>, "@anim"), Span(<<>>, "handler"))>>}

HostAttributeSeqs ==
    {<<>>, <<[name |-> "href", value |-> LiteralExpr("x", Span(<<>>, "href"))]>>}

HostBindingInputs(n) ==
    {HostBindingInput("Cmp", "cmp", ps, as, es) :
        ps \in {NullList} \cup {List(xs) : xs \in HostPropertySeqs(n)},
        as \in HostAttributeSeqs,
        es \in {NullList} \cup {List(xs) : xs \in HostEventSeqs}}

InitHost ==
    /\ InitJob
    /\ hostInput \in HostBindingInputs(MaxHostProps)
    /\ hostJobs = <<>>
    /\ ngDevMode = TRUE
    /\ InitApp
    /\ InitTransform
    /\ InitScheduler

\* one call ingestHostBinding(hostInput, ...)
IngestHostBinding ==
    /\ Len(hostJobs) < MaxIngestions
    /\ Let(IngestHostBindingOf(hostInput), LAMBDA r :
          /\ hostInput' = r.input
          /\ hostJobs' = Append(hostJobs, r.job))
    /\ UNCHANGED <<jobVars, exprVars, appVars, transformVars, schedulerVars>>

NextHost == IngestHostBinding

SpecHost == InitHost /\ [][NextHost]_vars

\* the kinds and names of the binding operations of a job
BindingKindsAndNames(j) ==
    [i \in 1..Len(j.update) |-> <<j.update[i].bindingKind, j.update[i].name>>]

\* C11: ingestHostBinding leaves every property of its input unchanged, and
\* the jobs of two calls in a row on the same input have binding operations
\* of the same kinds and names.
C11_HostBindingIngestionIsPure ==
    /\ [][hostInput' = hostInput]_vars
    /\ [](\A i, k \in 1..Len(hostJobs) :
             BindingKindsAndNames(hostJobs[i]) = BindingKindsAndNames(hostJobs[k]))

-----------------------------------------------------------------------------
(* Defer blocks without metadata.                                          *)

\* ingestNodes is about to hand ingestDeferBlock a block that has no entry
\* in job.deferBlocksMeta
DispatchingDeferWithoutMeta ==
    /\ Dispatching({"DeferredBlock"})
    /\ ~Head(Top.nodes).hasMeta

\* C12: ingesting a defer block that has no entry in the job's defer metadata
\* map aborts with an error before any effect: no view and no id is
\* allocated, and no create or update list changes.
C12_DeferWithoutMetaAborts ==
    [][DispatchingDeferWithoutMeta =>
          /\ status' = "error"
          /\ error' = "AssertionError: unable to find metadata for deferred block"
          /\ parent' = parent
          /\ nextXrefId' = nextXrefId
          /\ allocated' = allocated
          /\ create' = create
          /\ update' = update]_vars

\* ingestion was aborted at a defer block without metadata after other nodes
\* had been ingested
C12_Witness ==
    /\ status = "error"
    /\ error = "AssertionError: unable to find metadata for deferred block"
    /\ create[RootXref] # <<>>
    /\ Cardinality(DOMAIN parent) > 1

-----------------------------------------------------------------------------
(* Interpolated text with i18n metadata: templates of bound text nodes     *)
(* whose metadata is absent, a Container or a Message.                     *)

\* number of placeholders of a Container, and of expressions of an interpolation
MaxPlaceholders == 2

\* number of bound text nodes of a template
MaxTexts == 2

\* the interpolation "s0 {{x1}} s1 ... {{xn}} sn"
InterpolationOf(n) ==
    Interpolation([i \in 1..(n + 1) |-> "s"],
                  [i \in 1..n |-> PropertyRead(ImplicitReceiver, "x")])

BoundTexts(n) ==
    {BoundText(ASTWithSource(InterpolationOf(k)), m) :
        k \in 0..n,
        m \in {I18nUndefined, I18nMessage} \cup {I18nContainer(c) : c \in 0..n}}
    \cup {BoundText(ASTWithSource(PropertyRead(ImplicitReceiver, "x")), I18nUndefined)}

RECURSIVE TextTemplates(_, _)
TextTemplates(len, n) ==
    IF len = 0 THEN {<<>>}
    ELSE {<<>>} \cup {<<t>> \o ts : t \in BoundTexts(n), ts \in TextTemplates(len - 1, n)}

IngestComponentTexts == IngestComponentOf(TextTemplates(MaxTexts, MaxPlaceholders))

NextText ==
    \/ IngestComponentTexts
    \/ IngestBoundTextNode
    \/ ReturnFromNodes

SpecText == Init /\ [][NextText]_vars

\* ingestNodes is about to hand ingestBoundText an interpolation whose
\* Container metadata has a number of placeholders other than the number of
\* its expressions
DispatchingMismatchedText ==
    /\ Dispatching({"BoundText"})
    /\ AstOf(Head(Top.nodes).value).type = "Interpolation"
    /\ Head(Top.nodes).i18n.type = "Container"
    /\ Head(Top.nodes).i18n.placeholders # Len(AstOf(Head(Top.nodes).value).expressions)

\* C13: ingesting an interpolated text node whose Container metadata has a
\* number of placeholders different from the number of interpolation
\* expressions aborts with an error and appends neither a text op nor an
\* interpolate-text op.
C13_PlaceholderMismatchAborts ==
    [][DispatchingMismatchedText =>
          /\ status' = "error"
          /\ create' = create
          /\ update' = update]_vars

-----------------------------------------------------------------------------
(* ApplicationRef (application_ref.ts): tick, attachView, detachView,      *)
(* ngOnDestroy, onDestroy and destroy. A call of tick() runs code of the   *)
(* application (views, after-render callbacks, the error handler), which   *)
(* may return, throw, or call tick() again; the calls of tick() in         *)
(* progress are the frames of appStack, and a frame's pc is the statement  *)
(* of tick() the call is at. Code of the application that calls an         *)
(* ApplicationRef method lets the method's error propagate.                *)

\* number of views attached at a time
MaxViews == 2

\* number of destroy listeners registered at a time
MaxListeners == 2

nonAppVars == <<jobVars, exprVars, hostVars, transformVars, schedulerVars>>

RECURSIVE_APPLICATION_REF_TICK == "RECURSIVE_APPLICATION_REF_TICK"
APPLICATION_REF_ALREADY_DESTROYED == "APPLICATION_REF_ALREADY_DESTROYED"

\* remove(list, el): the list without the first occurrence of el
Remove(list, el) ==
    IF \E i \in 1..Len(list) : list[i] = el
    THEN LET index == CHOOSE i \in 1..Len(list) :
                         list[i] = el /\ \A k \in 1..(i - 1) : list[k] # el
         IN SubSeq(list, 1, index - 1) \o SubSeq(list, index + 1, Len(list))
    ELSE list

TickFrame(pc) == [pc |-> pc, i |-> 1, err |-> NoError, rethrow |-> NoError]

AppTop == Head(appStack)

RECURSIVE Raise(_, _)
\* the error e thrown into the calls stk, innermost first: a call in its try
\* block goes to its catch block, a call in the try block of its finally
\* block to the catch block there; an error out of the first catch block is
\* rethrown once the finally block is through, one out of the second leaves
\* tick() at once
Raise(e, stk) ==
    IF stk = <<>> THEN [stack |-> <<>>, escaped |-> e]
    ELSE LET f == Head(stk) IN
         CASE f.pc \in {"detect", "check"} ->
                 [stack |-> <<[f EXCEPT !.pc = "catch", !.err = e]>> \o Tail(stk),
                  escaped |-> NoError]
           [] f.pc \in {"afterRender", "recheck"} ->
                 [stack |-> <<[f EXCEPT !.pc = "catchInFinally", !.err = e]>> \o Tail(stk),
                  escaped |-> NoError]
           [] f.pc = "catch" ->
                 [stack |-> <<[f EXCEPT !.pc = "afterRender", !.rethrow = e]>> \o Tail(stk),
                  escaped |-> NoError]
           [] OTHER -> Raise(e, Tail(stk))

\* a call that threw e into its callers
Throws(e, callers) ==
    /\ appStack' = Raise(e, callers).stack
    /\ appThrown' = e

\* a step in which no call threw
NoThrow == appThrown' = NoError

\* tick() is called: from outside, or by the code a call of tick() is running
CallTick ==
    /\ \/ appStack = <<>> /\ appLog' = NoTickLog
       \/ /\ appStack # <<>>
          /\ \/ AppTop.pc \in {"detect", "check", "recheck"} /\ AppTop.i <= Len(app.views)
             \/ AppTop.pc \in {"catch", "afterRender", "catchInFinally"}
          /\ appLog' = appLog
    /\ appStack' = <<TickFrame("enter")>> \o appStack
    /\ NoThrow
    /\ UNCHANGED <<ngDevMode, app, nonAppVars>>

\* a flag that is never found set
IsRunningTickNever(a) == FALSE

\* `if (this._runningTick)`
IsRunningTick(a) == a.runningTick

\* the start of tick(): the recursion check, then `this._runningTick = true`
TickEnter ==
    /\ appStack # <<>>
    /\ AppTop.pc = "enter"
    /\ IF IsRunningTick(app)
       THEN /\ Throws(RECURSIVE_APPLICATION_REF_TICK, Tail(appStack))
            /\ app' = app
       ELSE /\ app' = [app EXCEPT !.runningTick = TRUE]
            /\ appStack' = <<[AppTop EXCEPT !.pc = "detect"]>> \o Tail(appStack)
            /\ NoThrow
    /\ UNCHANGED <<ngDevMode, appLog, nonAppVars>>

\* the frame on top of appStack, changed
AppTopBecomes(f) == appStack' = <<f>> \o Tail(appStack)

\* `for (let view of this._views) view.detectChanges()`: one view, or the end
\* of the loop
TickDetectChanges ==
    /\ appStack # <<>>
    /\ AppTop.pc = "detect"
    /\ IF AppTop.i > Len(app.views)
       THEN /\ AppTopBecomes([AppTop EXCEPT !.pc = IF ngDevMode THEN "check"
                                                    ELSE "afterRender",
                                            !.i = 1])
            /\ appLog' = appLog
       ELSE \/ /\ AppTopBecomes([AppTop EXCEPT !.i = @ + 1])
               /\ appLog' = [appLog EXCEPT !.detected = Append(@, app.views[AppTop.i])]
            \/ /\ AppTopBecomes([AppTop EXCEPT !.pc = "catch", !.err = "ViewError"])
               /\ appLog' = [appLog EXCEPT !.detected = Append(@, app.views[AppTop.i])]
    /\ NoThrow
    /\ UNCHANGED <<ngDevMode, app, nonAppVars>>

\* the loops over view.checkNoChanges(), in the try block and in the finally
\* block: one view, or the end of the loop
TickCheckNoChanges ==
    /\ appStack # <<>>
    /\ AppTop.pc \in {"check", "recheck"}
    /\ IF AppTop.i > Len(app.views)
       THEN AppTopBecomes([AppTop EXCEPT !.pc = IF AppTop.pc = "check" THEN "afterRender"
                                                ELSE "exit",
                                         !.i = 1])
       ELSE \/ AppTopBecomes([AppTop EXCEPT !.i = @ + 1])
            \/ AppTopBecomes([AppTop EXCEPT !.pc = IF AppTop.pc = "check" THEN "catch"
                                                   ELSE "catchInFinally",
                                            !.err = "ExpressionChanged"])
    /\ NoThrow
    /\ UNCHANGED <<ngDevMode, app, appLog, nonAppVars>>

\* `catch (e) { this.internalErrorHandler(e); }` of the try block: the handler
\* returns or throws
TickCatch ==
    /\ appStack # <<>>
    /\ AppTop.pc = "catch"
    /\ \/ /\ AppTopBecomes([AppTop EXCEPT !.pc = "afterRender", !.err = NoError])
          /\ appLog' = [appLog EXCEPT !.handled = Append(@, AppTop.err)]
       \/ /\ AppTopBecomes([AppTop EXCEPT !.pc = "afterRender", !.err = NoError,
                                          !.rethrow = "HandlerError"])
          /\ appLog' = appLog
    /\ NoThrow
    /\ UNCHANGED <<ngDevMode, app, nonAppVars>>

\* `this.afterRenderEffectManager.execute()` in the finally block: no callback
\* ran, callbacks ran, or a callback threw
TickAfterRender ==
    /\ appStack # <<>>
    /\ AppTop.pc = "afterRender"
    /\ \/ AppTopBecomes([AppTop EXCEPT !.pc = "exit"])
       \/ AppTopBecomes([AppTop EXCEPT !.pc = IF ngDevMode THEN "recheck" ELSE "exit",
                                       !.i = 1])
       \/ AppTopBecomes([AppTop EXCEPT !.pc = "catchInFinally", !.err = "CallbackError"])
    /\ NoThrow
    /\ UNCHANGED <<ngDevMode, app, appLog, nonAppVars>>

\* `catch (e) { this.internalErrorHandler(e); }` of the finally block: the
\* handler returns, or throws and so ends tick() before line 572
TickCatchInFinally ==
    /\ appStack # <<>>
    /\ AppTop.pc = "catchInFinally"
    /\ \/ /\ AppTopBecomes([AppTop EXCEPT !.pc = "exit", !.err = NoError])
          /\ appLog' = [appLog EXCEPT !.handled = Append(@, AppTop.err)]
          /\ NoThrow
       \/ /\ Throws("HandlerError", Tail(appStack))
          /\ appLog' = appLog
    /\ UNCHANGED <<ngDevMode, app, nonAppVars>>

\* `this._runningTick = false` and the end of tick(): a return, or the error
\* of the first catch block thrown on
TickExit ==
    /\ appStack # <<>>
    /\ AppTop.pc = "exit"
    /\ app' = [app EXCEPT !.runningTick = FALSE]
    /\ IF AppTop.rethrow # NoError
       THEN Throws(AppTop.rethrow, Tail(appStack))
       ELSE appStack' = Tail(appStack) /\ NoThrow
    /\ UNCHANGED <<ngDevMode, appLog, nonAppVars>>

\* attachView(viewRef), called from outside
AttachView ==
    /\ appStack = <<>>
    /\ Len(app.views) < MaxViews
    /\ \E view \in 1..MaxViews : app' = [app EXCEPT !.views = Append(@, view)]
    /\ NoThrow
    /\ UNCHANGED <<ngDevMode, appStack, appLog, nonAppVars>>

\* detachView(viewRef), called from outside
DetachView ==
    /\ appStack = <<>>
    /\ \E view \in 1..MaxViews :
          /\ Remove(app.views, view) # app.views
          /\ app' = [app EXCEPT !.views = Remove(@, view)]
    /\ NoThrow
    /\ UNCHANGED <<ngDevMode, appStack, appLog, nonAppVars>>

\* onDestroy(callback), called from outside
OnDestroy ==
    /\ appStack = <<>>
    /\ Len(app.destroyListeners) < MaxListeners
    /\ \E callback \in 1..MaxListeners :
          app' = [app EXCEPT !.destroyListeners = Append(@, callback)]
    /\ NoThrow
    /\ UNCHANGED <<ngDevMode, appStack, appLog, nonAppVars>>

\* the function onDestroy(callback) returned, called from outside
RemoveDestroyListener ==
    /\ appStack = <<>>
    /\ \E callback \in 1..MaxListeners :
          /\ Remove(app.destroyListeners, callback) # app.destroyListeners
          /\ app' = [app EXCEPT !.destroyListeners = Remove(@, callback)]
    /\ NoThrow
    /\ UNCHANGED <<ngDevMode, appStack, appLog, nonAppVars>>

\* the outcomes of the try block of ngOnDestroy: every listener and every
\* view's destroy() returned, or one of them threw
DestroyOutcomes == {NoError, "ListenerError", "ViewDestroyError"}

\* the try block of ngOnDestroy can end with the outcome
DestroyOutcomePossible(a, outcome) ==
    CASE outcome = "ListenerError" -> a.destroyListeners # <<>>
      [] outcome = "ViewDestroyError" -> a.views # <<>>
      [] OTHER -> TRUE

\* an ngOnDestroy whose cleanup is skipped when the try block throws
NgOnDestroyWithoutFinally(a, outcome) ==
    IF a.destroyed \/ outcome # NoError THEN a
    ELSE [a EXCEPT !.destroyed = TRUE, !.views = <<>>, !.bootstrapListeners = <<>>,
                   !.destroyListeners = <<>>]

\* ngOnDestroy(): the fields after the call
NgOnDestroyOf(a, outcome) ==
    IF a.destroyed THEN a
    ELSE [a EXCEPT !.destroyed = TRUE, !.views = <<>>, !.bootstrapListeners = <<>>,
                   !.destroyListeners = <<>>]

\* the error ngOnDestroy() throws
NgOnDestroyThrows(a, outcome) == IF a.destroyed THEN NoError ELSE outcome

\* ngOnDestroy(), called from outside
NgOnDestroy ==
    /\ appStack = <<>>
    /\ \E outcome \in DestroyOutcomes :
          /\ DestroyOutcomePossible(app, outcome)
          /\ app' = NgOnDestroyOf(app, outcome)
          /\ appThrown' = NgOnDestroyThrows(app, outcome)
    /\ UNCHANGED <<ngDevMode, appStack, appLog, nonAppVars>>

\* destroy(), called from outside: destroying the injector runs ngOnDestroy
Destroy ==
    /\ appStack = <<>>
    /\ IF app.destroyed
       THEN app' = app /\ appThrown' = APPLICATION_REF_ALREADY_DESTROYED
       ELSE IF ~app.injectorDestroyed
       THEN \E outcome \in DestroyOutcomes :
               /\ DestroyOutcomePossible(app, outcome)
               /\ app' = [NgOnDestroyOf(app, outcome) EXCEPT !.injectorDestroyed = TRUE]
               /\ appThrown' = NgOnDestroyThrows(app, outcome)
       ELSE app' = app /\ NoThrow
    /\ UNCHANGED <<ngDevMode, appStack, appLog, nonAppVars>>

InitAppRef ==
    /\ InitJob
    /\ hostInput = NoHostInput
    /\ hostJobs = <<>>
    /\ ngDevMode \in BOOLEAN
    /\ InitApp
    /\ InitTransform
    /\ InitScheduler

NextApp ==
    \/ CallTick
    \/ TickEnter
    \/ TickDetectChanges
    \/ TickCheckNoChanges
    \/ TickCatch
    \/ TickAfterRender
    \/ TickCatchInFinally
    \/ TickExit
    \/ AttachView
    \/ DetachView
    \/ OnDestroy
    \/ RemoveDestroyListener
    \/ NgOnDestroy
    \/ Destroy

SpecApp == InitAppRef /\ [][NextApp]_vars

\* tick() is called while another call of tick() is in progress
TickDuringTick ==
    /\ Len(appStack) > 1
    /\ AppTop.pc = "enter"

\* C14: a call of tick() made while another tick() of the same ApplicationRef
\* is executing throws RECURSIVE_APPLICATION_REF_TICK, runs change detection
\* on no view and leaves the running flag of the outer tick set.
C14_RecursiveTickThrows ==
    [][TickDuringTick =>
          /\ appThrown' = RECURSIVE_APPLICATION_REF_TICK
          /\ appLog' = appLog
          /\ app'.runningTick
          /\ app' = app
          /\ Len(appStack') < Len(appStack)]_vars

\* a view that was being checked called tick() and the call threw into the
\* outer tick, whose flag is still set
C14_Witness ==
    /\ appThrown = RECURSIVE_APPLICATION_REF_TICK
    /\ Len(appStack) = 1
    /\ AppTop.pc = "catch"
    /\ AppTop.err = RECURSIVE_APPLICATION_REF_TICK
    /\ app.runningTick
    /\ appLog.detected # <<>>

\* the step is a call of ngOnDestroy() on an instance not yet destroyed,
\* made directly or by destroy() through the injector
RunsNgOnDestroy ==
    /\ ~app.destroyed
    /\ NgOnDestroy \/ Destroy

\* destroyed, and holding no view and no listener
Released(a) ==
    /\ a.destroyed
    /\ a.views = <<>>
    /\ a.bootstrapListeners = <<>>
    /\ a.destroyListeners = <<>>

\* C15: once ngOnDestroy has run, also when a destroy listener or a view's
\* destroy threw, the instance is marked destroyed and holds no views, no
\* bootstrap listeners and no destroy listeners; a later ngOnDestroy does
\* nothing, and a later destroy() throws APPLICATION_REF_ALREADY_DESTROYED.
C15_DestroyedOnceAndForAll ==
    /\ [][RunsNgOnDestroy => Released(app')]_vars
    /\ [][NgOnDestroy /\ app.destroyed => app' = app /\ appThrown' = NoError]_vars
    /\ [][Destroy /\ app.destroyed =>
             app' = app /\ appThrown' = APPLICATION_REF_ALREADY_DESTROYED]_vars

\* ngOnDestroy has just run on an instance that is released although a
\* destroy listener or a view's destroy threw
C15_Witness ==
    /\ appThrown \in {"ListenerError", "ViewDestroyError"}
    /\ Released(app)

-----------------------------------------------------------------------------
(* The signal-input metadata transform, as its tests pin it down: each     *)
(* test hands a directive class to the transform and states the decorators *)
(* of the fields of the class emitted.                                     *)

\* number of fields of a class
MaxFields == 2

\* a decorator call: its callee and the properties of its argument as printed
Decorator(name, args) == [name |-> name, args |-> args]

\* `@Input()`, `@Input({someOptionIndicatingThatNothingChanged: true})` and
\* `@MyCustomDecorator()`
InputDecorator == Decorator("Input", <<>>)
InputDecoratorWithOptions ==
    Decorator("Input", <<<<"someOptionIndicatingThatNothingChanged", "true">>>>)
MyCustomDecorator == Decorator("MyCustomDecorator", <<>>)

\* a field `@decorators name = initializer(..., {alias, transform})`;
\* initializer is "input", "input.required" or "other"
ClassField(name, initializer, alias, hasTransform, decorators) ==
    [name |-> name, initializer |-> initializer, alias |-> alias,
     hasTransform |-> hasTransform, decorators |-> decorators]

DirectiveClass(fields) == [name |-> "MyDir", fields |-> fields]

\* the field is initialized with `input(...)` or `input.required(...)`
IsSignalInput(field) == field.initializer \in {"input", "input.required"}

\* a field takes no notice of an `@Input` it carries
HasInputDecoratorNever(field) == FALSE

\* the field carries an `@Input` decorator
HasInputDecorator(field) ==
    \E i \in 1..Len(field.decorators) : field.decorators[i].name = "Input"

\* `i0.Input({isSignal: true, alias: ..., required: ..., transform: undefined})`
SignalInputDecorator(field) ==
    Decorator("i0.Input",
              <<<<"isSignal", "true">>,
                <<"alias", IF field.alias = Null THEN field.name ELSE field.alias>>,
                <<"required", IF field.initializer = "input.required" THEN "true"
                              ELSE "false">>,
                <<"transform", "undefined">>>>)

\* the field the transform emits for a field
TransformField(field) ==
    IF IsSignalInput(field) /\ ~HasInputDecorator(field)
    THEN [field EXCEPT !.decorators = <<SignalInputDecorator(field)>> \o @]
    ELSE field

\* the class the transform emits for a class
TransformOf(class) ==
    [class EXCEPT !.fields = [i \in 1..Len(class.fields) |-> TransformField(class.fields[i])]]

\* the i-th field of a class, in each of the shapes the tests use
ClassFields(i) ==
    LET name == CASE i = 1 -> "someInput" [] i = 2 -> "someInput2" [] OTHER -> "someInput3"
        Decorators == {<<>>, <<InputDecorator>>, <<InputDecoratorWithOptions>>,
                       <<MyCustomDecorator>>}
    IN {ClassField(name, init, alias, tr, ds) :
           init \in {"input", "input.required"}, alias \in {Null, "public1"},
           tr \in BOOLEAN, ds \in Decorators}
       \cup {ClassField(name, "other", Null, FALSE, ds) : ds \in Decorators}

RECURSIVE FieldSeqs(_)
FieldSeqs(n) ==
    IF n = 0 THEN {<<>>}
    ELSE {<<>>} \cup {fs \o <<f>> : fs \in {x \in FieldSeqs(n - 1) : Len(x) = n - 1},
                                   f \in ClassFields(n)}
                \cup FieldSeqs(n - 1)

DirectiveClasses(n) == {DirectiveClass(fs) : fs \in FieldSeqs(n)}

\* a test writes its class to the test file
WriteClass ==
    /\ classIn = NoClass
    /\ classIn' \in DirectiveClasses(MaxFields)
    /\ classOut' = classOut
    /\ UNCHANGED <<jobVars, exprVars, hostVars, appVars, schedulerVars>>

\* transform(contents): the program is emitted with the metadata transform
TransformClass ==
    /\ classIn # NoClass
    /\ classOut = NoClass
    /\ classOut' = TransformOf(classIn)
    /\ classIn' = classIn
    /\ UNCHANGED <<jobVars, exprVars, hostVars, appVars, schedulerVars>>

NextTransform == WriteClass \/ TransformClass

SpecTransform == Init /\ [][NextTransform]_vars

\* the decorator the claim describes for a field
DescribedInputDecorator(field) ==
    [name |-> "i0.Input",
     args |-> <<<<"isSignal", "true">>,
                <<"alias", IF field.alias # Null THEN field.alias ELSE field.name>>,
                <<"required", IF field.initializer = "input.required" THEN "true"
                              ELSE "false">>,
                <<"transform", "undefined">>>>]

\* the number of decorators of a field that are an `Input` of the transform
AddedInputs(field) == Count(field.decorators, LAMBDA d : d.name = "i0.Input")

-----------------------------------------------------------------------------
(* Content-projection insertion points.                                    *)

\* the step ingests the first branch of an if block up to the descent into
\* its children
IngestsFirstBranch ==
    /\ status = "ingesting"
    /\ stack # <<>>
    /\ Top.f = "ingestIfBlock"
    /\ Top.i = 1
    /\ Top.i <= Len(Top.node.branches)
    /\ stack' # stack
    /\ status' = "ingesting"

\* the children of a branch without the comments
NonComments(children) == SelectSeq(children, LAMBDA c : c.kind # "Comment")

\* exactly one child besides comments, an element or a tag-named template
HasSingleRoot(children) ==
    /\ Len(NonComments(children)) = 1
    /\ \/ NonComments(children)[1].kind = "Element"
       \/ /\ NonComments(children)[1].kind = "Template"
          /\ NonComments(children)[1].tagName # Null

\* the template op the step adds has a tag name, or the step adds a binding
InfersInsertionPoint ==
    \/ \E k \in 1..Len(AddedCreateOps) :
          AddedCreateOps[k].kind = "Template" /\ AddedCreateOps[k].tag # Null
    \/ \E k \in 1..Len(AddedUpdateOps) : AddedUpdateOps[k].kind = "Binding"

\* C17: insertion-point inference gives a tag name or copies an attribute
\* only for a branch whose children, comments aside, are exactly one element
\* or tag-named template; for every other list of children the tag name is
\* null and no binding is appended.
C17_InferenceNeedsSingleRoot ==
    [][IngestsFirstBranch /\ InfersInsertionPoint =>
          HasSingleRoot(Top.node.branches[1].children)]_vars

-----------------------------------------------------------------------------
(* If blocks.                                                              *)

\* the step is the end of ingestIfBlock: the conditional op is appended
EndsIf ==
    /\ status = "ingesting"
    /\ stack # <<>>
    /\ Top.f = "ingestIfBlock"
    /\ Top.i > Len(Top.node.branches)
    /\ stack' # stack

\* what ingestIfBlock has added to the create list of the unit since
\* ingestNodes handed it the block
IfCreateOps ==
    SubSeq(create'[Top.unit], Len(stack[2].snap.create[Top.unit]) + 1,
           Len(create'[Top.unit]))

\* what it has added to the update list of the unit
IfUpdateOps ==
    SubSeq(update'[Top.unit], Len(stack[2].snap.update[Top.unit]) + 1,
           Len(update'[Top.unit]))

\* the views allocated since ingestNodes handed it the block that are
\* children of the unit
IfViews == {x \in DOMAIN parent' \ DOMAIN stack[2].snap.create : parent'[x] = Top.unit}

\* n template ops of kind Block in branch order, one view each, and a tag
\* name on the first at most
IfTemplatesPerBranch ==
    /\ Len(IfCreateOps) = Len(Top.node.branches)
    /\ Cardinality(IfViews) = Len(Top.node.branches)
    /\ \A k \in 1..Len(IfCreateOps) :
          /\ IfCreateOps[k].kind = "Template"
          /\ IfCreateOps[k].templateKind = "Block"
          /\ IfCreateOps[k].xref \in IfViews
          /\ k > 1 => IfCreateOps[k].tag = Null
          /\ \A l \in 1..Len(IfCreateOps) :
                l < k => IfCreateOps[l].xref < IfCreateOps[k].xref

\* one conditional op, the last update op, on the first branch's id and slot
\* and with the branches' conditions in branch order; every other update op
\* is an attribute copied onto the first branch's template
IfOneConditional ==
    LET conditional == IfUpdateOps[Len(IfUpdateOps)] IN
    /\ Count(IfUpdateOps, LAMBDA op : op.kind = "Conditional") = 1
    /\ conditional.kind = "Conditional"
    /\ conditional.target = IfCreateOps[1].xref
    /\ conditional.targetSlot = IfCreateOps[1].handle
    /\ Len(conditional.conditions) = Len(Top.node.branches)
    /\ \A k \in 1..Len(Top.node.branches) :
          /\ conditional.conditions[k].target = IfCreateOps[k].xref
          /\ conditional.conditions[k].targetSlot = IfCreateOps[k].handle
          /\ (conditional.conditions[k].expr = NoAst)
               = (Top.node.branches[k].expression = NoAst)
    /\ \A k \in 1..(Len(IfUpdateOps) - 1) :
          /\ IfUpdateOps[k].kind = "Binding"
          /\ IfUpdateOps[k].target = IfCreateOps[1].xref

\* C18: an if block with n >= 1 branches allocates n child views, appends n
\* block template ops to the parent's create list in branch order and one
\* conditional op to its update list, which has the id and slot of the first
\* branch and the n conditions in branch order (null for an else branch);
\* only the first branch's template op can have a tag name or copied
\* attributes.
C18_IfBlockShape ==
    [][EndsIf /\ Len(Top.node.branches) >= 1 =>
          IfTemplatesPerBranch /\ IfOneConditional]_vars

\* an if block with an else branch has been ingested whose else branch has
\* a single root element and a template op without a tag name
C18_Witness ==
    /\ status = "done"
    /\ Len(template) = 1
    /\ template[1].kind = "IfBlock"
    /\ Len(template[1].branches) = 2
    /\ HasSingleRoot(template[1].branches[2].children)
    /\ \E k \in 1..Len(update[RootXref]) :
          /\ update[RootXref][k].kind = "Conditional"
          /\ Len(update[RootXref][k].conditions) = 2
          /\ update[RootXref][k].conditions[2].expr = NoAst
    /\ Len(create[RootXref]) = 2
    /\ create[RootXref][2].kind = "Template"
    /\ create[RootXref][2].tag = Null

-----------------------------------------------------------------------------
(* Listener handlers: one element with one event whose handler is a chain  *)
(* of expressions or a single expression.                                  *)

\* number of expressions of a handler chain
MaxChain == 3

HandlerExpressions ==
    {PropertyRead(ImplicitReceiver, "a"), Call(PropertyRead(ImplicitReceiver, "h"), <<>>),
     LiteralPrimitive(1)}

RECURSIVE ExpressionSeqs(_)
ExpressionSeqs(n) ==
    IF n = 0 THEN {<<>>}
    ELSE ExpressionSeqs(n - 1)
         \cup {xs \o <<x>> : xs \in {s \in ExpressionSeqs(n - 1) : Len(s) = n - 1},
                             x \in HandlerExpressions}

Handlers(n) ==
    LET plain == {Chain(xs) : xs \in ExpressionSeqs(n)} \cup HandlerExpressions
    IN plain \cup {ASTWithSource(h) : h \in plain}

HandlerTemplates(n) ==
    {<<Element(I18nUndefined, TRUE, <<>>, <<>>, <<BoundEvent("Regular", "click", Null, h)>>,
               <<>>)>> : h \in Handlers(n)}

IngestComponentHandlers == IngestComponentOf(HandlerTemplates(MaxChain))

NextHandler ==
    \/ IngestComponentHandlers
    \/ ReturnFromNodes
    \/ IngestElementStart
    \/ IngestElementEnd

SpecHandler == Init /\ [][NextHandler]_vars

\* the expressions of a handler: those of the chain, or the handler itself
HandlerExprsOf(handler) ==
    IF AstOf(handler).type = "Chain" THEN AstOf(handler).expressions ELSE <<AstOf(handler)>>

\* the listener ops the step adds to the create list, in order
AddedListeners == SelectSeq(AddedCreateOps, LAMBDA op : op.kind = "Listener")

\* the ops are one statement per expression, in the order of the
\* expressions: expression statements, then a return statement
IsHandlerBody(ops, exprs, handlerSpan) ==
    /\ Len(ops) = Len(exprs)
    /\ \A k \in 1..Len(ops) :
          /\ ops[k].kind = "Statement"
          /\ ops[k].statement = IF k = Len(exprs) THEN "ReturnStatement"
                                ELSE "ExpressionStatement"
          /\ ops[k].expr = ConvertAst(exprs[k], nextXrefId, RootXref, handlerSpan).expr

\* C19: the handler body of a listener whose handler is a chain of n >= 1
\* expressions (a single expression counting as a chain of one) is n
\* statement ops in source order, n - 1 expression statements and then a
\* return statement of the last expression; a chain of no expression aborts
\* ingestion with an error.
C19_HandlerBodyStatements ==
    [][Dispatching({"Element"}) /\ stack' # stack =>
          LET outputs == Head(Top.nodes).outputs IN
          IF \E k \in 1..Len(outputs) : Len(HandlerExprsOf(outputs[k].handler)) = 0
          THEN /\ status' = "error"
               /\ error' = "Expected listener to have non-empty expression list."
          ELSE /\ status' = "ingesting"
               /\ Len(AddedListeners) = Len(outputs)
               /\ \A k \in 1..Len(outputs) :
                     IsHandlerBody(AddedListeners[k].handlerOps,
                                   HandlerExprsOf(outputs[k].handler),
                                   Span(NodePath, outputs[k].name))]_vars

\* a listener has been ingested whose handler is a chain of MaxChain
\* different expressions
C19_Witness ==
    /\ status = "done"
    /\ \E k \in 1..Len(create[RootXref]) :
          /\ create[RootXref][k].kind = "Listener"
          /\ Len(create[RootXref][k].handlerOps) = MaxChain
          /\ create[RootXref][k].handlerOps[1].expr # create[RootXref][k].handlerOps[2].expr

-----------------------------------------------------------------------------
(* Elements with bindings, listeners and children, with and without a      *)
(* message-level i18n annotation.                                          *)

\* number of children of the outer element
MaxChildren == 2

ElementChildren ==
    {Text,
     Element(I18nUndefined, TRUE, <<>>, <<>>, <<>>, <<>>),
     Element(I18nMessage, TRUE, <<TextAttribute("alt", I18nMessage)>>, <<>>,
             <<BoundEvent("Regular", "click", Null, PropertyRead(ImplicitReceiver, "h"))>>,
             <<>>)}

RECURSIVE ChildSeqs(_)
ChildSeqs(n) ==
    IF n = 0 THEN {<<>>}
    ELSE ChildSeqs(n - 1)
         \cup {cs \o <<c>> : cs \in {s \in ChildSeqs(n - 1) : Len(s) = n - 1},
                             c \in ElementChildren}

ElementTemplates(n) ==
    {<<Element(i18n, hasEnd, a, i, o, c)>> :
        i18n \in {I18nUndefined, I18nMessage, I18nTagPlaceholder}, hasEnd \in BOOLEAN,
        a \in AttrSeqs(1), i \in InputSeqs, o \in OutputSeqs, c \in ChildSeqs(n)}

IngestComponentElements == IngestComponentOf(ElementTemplates(MaxChildren))

NextElement ==
    \/ IngestComponentElements
    \/ ReturnFromNodes
    \/ IngestTextNode
    \/ IngestElementStart
    \/ IngestElementEnd

SpecElement == Init /\ [][NextElement]_vars

\* what ingestElement has added to the create list of the unit since
\* ingestNodes handed it the element
ElementCreateOps ==
    SubSeq(create'[Top.unit], Len(stack[2].snap.create[Top.unit]) + 1,
           Len(create'[Top.unit]))

\* a create op produced by the bindings and listeners of the element `id`
IsBindingOpOf(op, id) ==
    /\ op.kind \in {"Listener", "I18nAttributes", "ExtractedAttribute"}
    /\ op.target = id

HasI18nMessage(list) == \E k \in 1..Len(list) : list[k].i18n.type = "Message"

\* ops[from..to] are the ops of the children: none belongs to the element
\* itself, and each child (a text or a childless element) has its op
AreChildrenOps(ops, from, to, element, id) ==
    /\ \A k \in from..to :
          /\ ~IsBindingOpOf(ops[k], id)
          /\ ops[k].kind \in {"ElementStart", "ElementEnd"} => ops[k].xref # id
    /\ Count(SubSeq(ops, from, to), LAMBDA op : op.kind \in {"Text", "ElementStart"})
          = Len(element.children)

\* the i18n brackets the children (childless elements) open for themselves
ChildBrackets(element) == Count(element.children, LAMBDA c : c.kind = "Element" /\ c.i18n.type = "Message")

\* C20: the create ops of an element with a message-level i18n annotation
\* are, in this order, the element-start op, the ops of its bindings and
\* listeners, one i18n-start op, the ops of its children, one i18n-end op
\* with the id of the i18n-start, and right after it the element-end op;
\* an element without a message-level annotation produces no i18n-start and
\* no i18n-end op (those among its ops are its children's)
C20_I18nBracketInsideElement ==
    [][EndsElement =>
          LET ops == ElementCreateOps
              n == Len(ops)
              element == Top.node
              b == Count(ops, LAMBDA op : IsBindingOpOf(op, Top.id))
              starts == Count(ops, LAMBDA op : op.kind = "I18nStart")
              ends == Count(ops, LAMBDA op : op.kind = "I18nEnd")
          IN /\ n >= 2 + b
             /\ ops[1].kind = "ElementStart"
             /\ ops[1].xref = Top.id
             /\ \A k \in 2..(1 + b) : IsBindingOpOf(ops[k], Top.id)
             /\ Count(ops, LAMBDA op : op.kind = "Listener" /\ op.target = Top.id)
                   = Len(element.outputs)
             /\ ops[n].kind = "ElementEnd"
             /\ ops[n].xref = Top.id
             /\ IF element.i18n.type = "Message"
                THEN /\ n >= 4 + b
                     /\ ops[2 + b].kind = "I18nStart"
                     /\ ops[2 + b].message = element.i18n
                     /\ AreChildrenOps(ops, 3 + b, n - 2, element, Top.id)
                     /\ ops[n - 1].kind = "I18nEnd"
                     /\ ops[n - 1].xref = ops[2 + b].xref
                     /\ Count(ops, LAMBDA op : op.kind \in {"I18nStart", "I18nEnd"}
                                                  /\ op.xref = ops[2 + b].xref) = 2
                     /\ starts = 1 + ChildBrackets(element)
                     /\ ends = 1 + ChildBrackets(element)
                ELSE /\ AreChildrenOps(ops, 2 + b, n - 1, element, Top.id)
                     /\ starts = ChildBrackets(element)
                     /\ ends = ChildBrackets(element)]_vars

\* <div i18n (click)="h" alt="v" i18n-alt>t<div i18n ...></div></div> has
\* been ingested: the outer bracket encloses the text and the inner element
C20_Witness ==
    /\ status = "done"
    /\ Len(template) = 1
    /\ template[1].kind = "Element"
    /\ template[1].i18n.type = "Message"
    /\ Len(template[1].outputs) = 1
    /\ HasI18nMessage(template[1].attributes)
    /\ Len(template[1].children) = 2
    /\ template[1].children[1].kind = "Text"
    /\ template[1].children[2].kind = "Element"
    /\ template[1].children[2].i18n.type = "Message"
    /\ LET ops == create[RootXref] IN
       /\ Len(ops) = 13
       /\ ops[2].kind = "Listener"
       /\ ops[3].kind = "I18nAttributes"
       /\ ops[4].kind = "I18nStart"
       /\ ops[5].kind = "Text"
       /\ ops[6].kind = "ElementStart"
       /\ ops[12].kind = "I18nEnd"
       /\ ops[12].xref = ops[4].xref
       /\ ops[13].kind = "ElementEnd"

-----------------------------------------------------------------------------
(* Plain and structural templates with children, with and without a        *)
(* message-level i18n annotation.                                          *)

TemplatesOfChildren(n) ==
    {<<Template(tagName, i18n, <<>>, <<>>, <<>>, <<>>, <<>>, c)>> :
        tagName \in {NG_TEMPLATE_TAG_NAME, "div"},
        i18n \in {I18nUndefined, I18nMessage, I18nTagPlaceholder},
        c \in ChildSeqs(n)}

IngestComponentTemplates == IngestComponentOf(TemplatesOfChildren(MaxChildren))

NextTemplate ==
    \/ IngestComponentTemplates
    \/ ReturnFromNodes
    \/ IngestTextNode
    \/ IngestElementStart
    \/ IngestElementEnd
    \/ IngestTemplateStart
    \/ IngestTemplateEnd

SpecTemplate == Init /\ [][NextTemplate]_vars

\* the step is the end of ingestTemplate: the children have been ingested
\* into the child view
EndsTemplate ==
    /\ status = "ingesting"
    /\ stack # <<>>
    /\ Top.f = "ingestTemplate"
    /\ stack' # stack

IsI18nBracket(op) == op.kind \in {"I18nStart", "I18nEnd"}

\* the i18n brackets of the list that carry the id
BracketsOf(ops, id) == Count(ops, LAMBDA op : IsI18nBracket(op) /\ op.xref = id)

\* C21: the create list of the child view of a plain ng-template with a
\* message-level i18n annotation is bracketed as a whole: an i18n-start op
\* and an i18n-end op with the same id enclose every op ingested from the
\* template's children, however many there are, and the parent unit gets no
\* bracket; a structural template with a message gets no bracket at all
C21_PlainTemplateBracketedAsAWhole ==
    [][/\ EndsTemplate =>
             LET tmpl == Top.node
                 children == create[Top.childView]
                 ops == create'[Top.childView]
                 n == Len(ops)
             IN /\ Count(children, LAMBDA op : op.kind \in {"Text", "ElementStart"})
                      = Len(tmpl.children)
                /\ create'[Top.unit] = create[Top.unit]
                /\ IF IsPlainTemplate(tmpl) /\ tmpl.i18n.type = "Message"
                   THEN /\ n = Len(children) + 2
                        /\ ops[1].kind = "I18nStart"
                        /\ ops[1].message = tmpl.i18n
                        /\ SubSeq(ops, 2, n - 1) = children
                        /\ ops[n].kind = "I18nEnd"
                        /\ ops[n].xref = ops[1].xref
                        /\ BracketsOf(ops, ops[1].xref) = 2
                        /\ BracketsOf(create'[Top.unit], ops[1].xref) = 0
                   ELSE ops = children
       /\ Dispatching({"Template"}) /\ stack' # stack =>
             Count(AddedCreateOps, IsI18nBracket) = 0]_vars

\* <ng-template i18n>t<div></div></ng-template> has been ingested
C21_Witness ==
    /\ status = "done"
    /\ Len(template) = 1
    /\ template[1].kind = "Template"
    /\ IsPlainTemplate(template[1])
    /\ template[1].i18n.type = "Message"
    /\ Len(template[1].children) = 2
    /\ \E v \in DOMAIN create \ {RootXref} :
          /\ Len(create[v]) = 6
          /\ create[v][1].kind = "I18nStart"
          /\ create[v][2].kind = "Text"
          /\ create[v][3].kind = "ElementStart"
          /\ create[v][5].kind = "ElementEnd"
          /\ create[v][6].kind = "I18nEnd"
          /\ create[v][6].xref = create[v][1].xref
    /\ Count(create[RootXref], IsI18nBracket) = 0

-----------------------------------------------------------------------------
(* Host properties with the `attr.` prefix.                                *)

\* the step is one call of ingestHostBinding
CallsIngestHostBinding == hostJobs' # hostJobs

\* the properties handed to the call of the step, as the caller wrote them
GivenProperties == OrEmpty(hostInput.properties)

\* the job the call of the step returns
ReturnedJob == hostJobs'[Len(hostJobs')]

\* the binding op the call of the step has produced for the k-th property
PropertyBinding(k) == ReturnedJob.update[k]

\* every property has its binding op, in the properties' order
OneBindingPerProperty ==
    /\ Len(ReturnedJob.update) >= Len(GivenProperties)
    /\ \A k \in 1..Len(GivenProperties) :
          /\ PropertyBinding(k).kind = "Binding"
          /\ PropertyBinding(k).sourceSpan = GivenProperties[k].sourceSpan

\* C22 as stated: every property whose name starts with `attr.` yields a
\* binding op of kind Attribute named by the rest of the name, also when the
\* property is flagged as an animation
C22_AttrPrefixAlwaysAttribute ==
    [][CallsIngestHostBinding =>
          /\ OneBindingPerProperty
          /\ \A k \in 1..Len(GivenProperties) :
                StartsWithAttr(GivenProperties[k].name) =>
                   /\ PropertyBinding(k).bindingKind = "Attribute"
                   /\ PropertyBinding(k).name = SubstringAttr(GivenProperties[k].name)]_vars

\* C22: every property whose name starts with `attr.` yields a binding op
\* named by the rest of the name; its kind is Attribute unless the property
\* is flagged as an animation, and Animation when it is
C22_AttrPrefixAttributeUnlessAnimation ==
    [][CallsIngestHostBinding =>
          /\ OneBindingPerProperty
          /\ \A k \in 1..Len(GivenProperties) :
                StartsWithAttr(GivenProperties[k].name) =>
                   /\ PropertyBinding(k).bindingKind =
                         (IF GivenProperties[k].isAnimation THEN "Animation"
                          ELSE "Attribute")
                   /\ PropertyBinding(k).name = SubstringAttr(GivenProperties[k].name)]_vars

\* one call has turned `attr.id`, not an animation, into an attribute
\* binding named `id`
C22_Witness ==
    /\ Len(hostJobs) = 1
    /\ \E k \in 1..Len(OrEmpty(hostInput.properties)) :
          /\ ~hostInput.properties.items[k].isAnimation
          /\ hostInput.properties.items[k].name = "id"
          /\ hostJobs[1].update[k].bindingKind = "Attribute"
          /\ ~hostJobs[1].update[k].isTextAttribute
          /\ hostJobs[1].update[k].name = "id"

-----------------------------------------------------------------------------
(* Bindings of every type on structural and plain templates.               *)

\* number of inputs of the template
MaxInputs == 2

BindingTypes == {"Property", "Attribute", "Class", "Style", "Animation"}

\* the name of the i-th input
InputName(i) == IF i = 1 THEN "value" ELSE IF i = 2 THEN "other" ELSE "more"

RECURSIVE TypedInputSeqs(_)
\* the lists of at most n inputs, of every type
TypedInputSeqs(n) ==
    IF n = 0 THEN {<<>>}
    ELSE TypedInputSeqs(n - 1)
         \cup {Append(xs, BoundAttribute(ty, InputName(n), PropertyRead(ImplicitReceiver, "x"),
                                         I18nUndefined)) :
                  xs \in {s \in TypedInputSeqs(n - 1) : Len(s) = n - 1}, ty \in BindingTypes}

TemplateAttrSeqs ==
    {<<>>, <<TextAttribute("ngIf", I18nUndefined)>>}
    \cup {<<BoundAttribute(ty, "ngFor", PropertyRead(ImplicitReceiver, "x"), I18nUndefined)>> :
            ty \in BindingTypes}

TypedTemplates(n) ==
    {<<Template(tagName, I18nUndefined, ta, a, i, <<>>, <<>>, <<>>)>> :
        tagName \in {"div", NG_TEMPLATE_TAG_NAME}, ta \in TemplateAttrSeqs,
        a \in {<<>>, <<TextAttribute("title", I18nUndefined)>>}, i \in TypedInputSeqs(n)}

IngestComponentTyped == IngestComponentOf(TypedTemplates(MaxInputs))

NextTyped ==
    \/ IngestComponentTyped
    \/ ReturnFromNodes
    \/ IngestTemplateStart
    \/ IngestTemplateEnd

SpecTyped == Init /\ [][NextTyped]_vars

\* the step ingests a structural template and its bindings without an error
IngestsStructuralTemplate ==
    /\ Dispatching({"Template"})
    /\ ~IsPlainTemplate(Head(Top.nodes))
    /\ status' = "ingesting"

\* the extracted-attribute ops the step adds to the create list for the name
ExtractedFor(name) ==
    SelectSeq(AddedCreateOps, LAMBDA op : op.kind = "ExtractedAttribute" /\ op.name = name)

\* the ops the step adds to the update list for the name
UpdatesFor(name) == SelectSeq(AddedUpdateOps, LAMBDA op : op.name = name)

\* no op of the step other than the template op, the extracted attributes
\* and the i18n-attributes op is a create op, and every update op is a binding
OnlyBindingOps ==
    /\ \A k \in 1..Len(AddedCreateOps) :
          AddedCreateOps[k].kind \in {"Template", "ExtractedAttribute", "I18nAttributes"}
    /\ \A k \in 1..Len(AddedUpdateOps) : AddedUpdateOps[k].kind = "Binding"

\* C23: on a structural template, an input (not flagged structural) of type
\* property, class or style yields exactly one extracted-attribute op of kind
\* Property in the create list and no update op; an input of type attribute
\* or animation yields no op at all; a text attribute yields one binding op
\* in the update list; a template attribute (flagged structural) of type
\* property, class or style yields one update-list binding op of its
\* declared kind
C23_StructuralTemplateBindings ==
    [][IngestsStructuralTemplate =>
          LET tmpl == Head(Top.nodes) IN
          /\ OnlyBindingOps
          /\ \A k \in 1..Len(tmpl.inputs) :
                LET input == tmpl.inputs[k] IN
                IF input.type \in {"Property", "Class", "Style"}
                THEN /\ Len(ExtractedFor(input.name)) = 1
                     /\ ExtractedFor(input.name)[1].bindingKind = "Property"
                     /\ UpdatesFor(input.name) = <<>>
                ELSE /\ ExtractedFor(input.name) = <<>>
                     /\ UpdatesFor(input.name) = <<>>
          /\ \A k \in 1..Len(tmpl.attributes) :
                LET attr == tmpl.attributes[k] IN
                /\ ExtractedFor(attr.name) = <<>>
                /\ Len(UpdatesFor(attr.name)) = 1
                /\ UpdatesFor(attr.name)[1].bindingKind = "Attribute"
                /\ UpdatesFor(attr.name)[1].isTextAttribute
                /\ ~UpdatesFor(attr.name)[1].isStructuralTemplateAttribute
          /\ \A k \in 1..Len(tmpl.templateAttrs) :
                LET attr == tmpl.templateAttrs[k] IN
                ~attr.text /\ attr.type \in {"Property", "Class", "Style"} =>
                   /\ ExtractedFor(attr.name) = <<>>
                   /\ Len(UpdatesFor(attr.name)) = 1
                   /\ UpdatesFor(attr.name)[1].bindingKind = BINDING_KINDS[attr.type]
                   /\ UpdatesFor(attr.name)[1].isStructuralTemplateAttribute]_vars

\* <div *ngFor title="v" [class.value]="x" [attr.other]="x"> has been
\* ingested: one extracted attribute for the class input, nothing for the
\* attribute input, and update ops for ngFor and title only
C23_Witness ==
    /\ status = "done"
    /\ Len(template) = 1
    /\ template[1].kind = "Template"
    /\ ~IsPlainTemplate(template[1])
    /\ Len(template[1].templateAttrs) = 1
    /\ ~template[1].templateAttrs[1].text
    /\ template[1].templateAttrs[1].type = "Style"
    /\ Len(template[1].attributes) = 1
    /\ Len(template[1].inputs) = 2
    /\ template[1].inputs[1].type = "Class"
    /\ template[1].inputs[2].type = "Attribute"
    /\ Len(update[RootXref]) = 2
    /\ update[RootXref][1].bindingKind = "StyleProperty"
    /\ update[RootXref][2].isTextAttribute
    /\ Count(create[RootXref], LAMBDA op : op.kind = "ExtractedAttribute") = 1

-----------------------------------------------------------------------------
(* Property writes and keyed writes in listener handlers, in the root view *)
(* and in the view of an ng-template.                                      *)

WriteReceivers == {ImplicitReceiver, ThisReceiver, PropertyRead(ImplicitReceiver, "o")}

WriteValues ==
    {LiteralPrimitive(1), PropertyRead(ImplicitReceiver, "b"),
     PropertyWrite(ImplicitReceiver, "c", LiteralPrimitive(1))}

Writes ==
    {PropertyWrite(r, "a", v) : r \in WriteReceivers, v \in WriteValues}
    \cup {KeyedWrite(r, LiteralPrimitive(0), v) : r \in WriteReceivers, v \in WriteValues}

ElementWriting(handler) ==
    Element(I18nUndefined, TRUE, <<>>, <<>>, <<BoundEvent("Regular", "click", Null, handler)>>,
            <<>>)

\* a listener on an element of the root view, or of the view of a template
WriteTemplates ==
    LET handlers == Writes \cup {ASTWithSource(w) : w \in Writes}
    IN {<<ElementWriting(h)>> : h \in handlers}
       \cup {<<Template(NG_TEMPLATE_TAG_NAME, I18nUndefined, <<>>, <<>>, <<>>, <<>>, <<>>,
                        <<ElementWriting(h)>>)>> : h \in handlers}

IngestComponentWrites == IngestComponentOf(WriteTemplates)

NextWrite ==
    \/ IngestComponentWrites
    \/ ReturnFromNodes
    \/ IngestElementStart
    \/ IngestElementEnd
    \/ IngestTemplateStart
    \/ IngestTemplateEnd

SpecWrite == Init /\ [][NextWrite]_vars

\* the write the listener of the element about to be ingested makes
WriteOfElement == AstOf(Head(Top.nodes).outputs[1].handler)

\* the step ingests an element whose listener writes through a receiver of
\* one of the types
IngestsWriteThrough(receivers) ==
    /\ Dispatching({"Element"})
    /\ stack' # stack
    /\ WriteOfElement.receiver.type \in receivers

\* the step has lowered the write into the expression the listener returns:
\* a write of the same sort on the context of the root view
LoweredOntoRootContext ==
    /\ status' = "ingesting"
    /\ Len(AddedListeners) = 1
    /\ Len(AddedListeners[1].handlerOps) = 1
    /\ LET out == AddedListeners[1].handlerOps[1].expr IN
       /\ out.e = (IF WriteOfElement.type = "PropertyWrite" THEN "WriteProp" ELSE "WriteKey")
       /\ out.receiver = ContextExpr(RootXref)

-----------------------------------------------------------------------------
(* The zoneless change detection scheduler: notify(), the timer callback   *)
(* it sets, and the pending-tasks service whose stable notification can    *)
(* call notify() again.                                                    *)

\* calls of notify() in a run
MaxNotifies == 3
\* tasks other parties add to the pending-tasks service in a run
MaxOtherTasks == 1

nonSchedulerVars == <<jobVars, exprVars, hostVars, appVars, transformVars>>

NotifyOfAlways(s) ==
    [s EXCEPT !.pendingRenderTaskId = s.nextTaskId,
              !.tasks = @ \cup {s.nextTaskId},
              !.nextTaskId = @ + 1,
              !.added = @ \cup {s.nextTaskId},
              !.timers = @ + 1]

\* notify(): `this.taskService.add()` hands out the next id, setTimeout
\* sets one more timer
NotifyOf(s) ==
    IF s.pendingRenderTaskId # NoTask THEN s
    ELSE [s EXCEPT !.pendingRenderTaskId = s.nextTaskId,
                   !.tasks = @ \cup {s.nextTaskId},
                   !.nextTaskId = @ + 1,
                   !.added = @ \cup {s.nextTaskId},
                   !.timers = @ + 1]

\* one call of notify(), counted
NotifyCall(s) == NotifyOf([s EXCEPT !.notifies = @ + 1])

\* taskService.remove(taskId): if this is the last task the service emits
\* a stable notification synchronously, and its subscriber may call notify()
RemoveTask(s, taskId, subscriberNotifies) ==
    Let([s EXCEPT !.tasks = @ \ {taskId}], LAMBDA s1 :
       IF s1.tasks = {} /\ taskId \in s.tasks
       THEN Let([s1 EXCEPT !.stable = [emitted |-> TRUE, notified |-> subscriberNotifies]],
                LAMBDA s2 : IF subscriberNotifies THEN NotifyCall(s2) ELSE s2)
       ELSE [s1 EXCEPT !.stable = [emitted |-> FALSE, notified |-> FALSE]])

\* the try block of the timer callback: tick() unless the application has
\* been destroyed; tick() returns or throws, and what runs in it may call
\* notify()
TimerTryOf(s, throws, notifiesInTick) ==
    IF s.destroyed THEN [s EXCEPT !.threw = FALSE]
    ELSE Let([s EXCEPT !.ticks = @ + 1, !.threw = throws], LAMBDA s1 :
            IF notifiesInTick THEN NotifyCall(s1) ELSE s1)

TimerFinallyRemovingFirst(s, subscriberNotifies) ==
    [RemoveTask(s, s.pendingRenderTaskId, subscriberNotifies)
       EXCEPT !.pendingRenderTaskId = NoTask]

TimerFinallyUnlessThrown(s, subscriberNotifies) ==
    IF s.threw THEN s
    ELSE RemoveTask([s EXCEPT !.pendingRenderTaskId = NoTask], s.pendingRenderTaskId,
                    subscriberNotifies)

\* the finally block of the timer callback
TimerFinallyOf(s, subscriberNotifies) ==
    LET taskId == s.pendingRenderTaskId
    IN RemoveTask([s EXCEPT !.pendingRenderTaskId = NoTask], taskId, subscriberNotifies)

\* whoever may call notify() may still do so in this run
MayNotify(s) == s.notifies < MaxNotifies

\* a call of notify() from outside the timer callback
Notify ==
    /\ scheduler.running = "idle"
    /\ MayNotify(scheduler)
    /\ scheduler' = NotifyCall(scheduler)
    /\ UNCHANGED nonSchedulerVars

\* a timer set by notify() fires and the callback runs its try block
TimerFires ==
    /\ scheduler.running = "idle"
    /\ scheduler.timers > 0
    /\ \E throws \in BOOLEAN, notifiesInTick \in BOOLEAN :
          /\ scheduler.destroyed => ~throws /\ ~notifiesInTick
          /\ notifiesInTick => MayNotify(scheduler)
          /\ scheduler' =
                TimerTryOf([scheduler EXCEPT !.timers = @ - 1, !.fired = @ + 1,
                                             !.running = "finally"],
                           throws, notifiesInTick)
    /\ UNCHANGED nonSchedulerVars

\* the callback runs its finally block and ends, with the error of tick()
\* if it threw
TimerFinally ==
    /\ scheduler.running = "finally"
    /\ \E subscriberNotifies \in BOOLEAN :
          /\ subscriberNotifies => MayNotify(scheduler)
          /\ scheduler' = [TimerFinallyOf(scheduler, subscriberNotifies)
                             EXCEPT !.running = "idle"]
    /\ UNCHANGED nonSchedulerVars

\* the ApplicationRef is destroyed
AppDestroyed ==
    /\ scheduler.running = "idle"
    /\ ~scheduler.destroyed
    /\ scheduler' = [scheduler EXCEPT !.destroyed = TRUE]
    /\ UNCHANGED nonSchedulerVars

\* another party adds a task to the pending-tasks service
OtherTaskAdded ==
    /\ scheduler.running = "idle"
    /\ scheduler.others < MaxOtherTasks
    /\ scheduler' = [scheduler EXCEPT !.tasks = @ \cup {scheduler.nextTaskId},
                                      !.nextTaskId = @ + 1, !.others = @ + 1]
    /\ UNCHANGED nonSchedulerVars

\* another party removes its task
OtherTaskRemoved ==
    /\ scheduler.running = "idle"
    /\ \E taskId \in scheduler.tasks \ scheduler.added, subscriberNotifies \in BOOLEAN :
          /\ subscriberNotifies => MayNotify(scheduler)
          /\ scheduler' = RemoveTask(scheduler, taskId, subscriberNotifies)
    /\ UNCHANGED nonSchedulerVars

NextScheduler ==
    \/ Notify
    \/ TimerFires
    \/ TimerFinally
    \/ AppDestroyed
    \/ OtherTaskAdded
    \/ OtherTaskRemoved

SpecScheduler == Init /\ [][NextScheduler]_vars

\* timers fire, and a callback that has started runs to its end
SpecSchedulerFair ==
    /\ Init
    /\ [][NextScheduler]_vars
    /\ WF_vars(TimerFires)
    /\ WF_vars(TimerFinally)

\* the step is the finally block of the timer callback
RunsFinally == scheduler.running = "finally" /\ scheduler'.running = "idle"

\* C25: the timer callback clears the pending render task id before it
\* removes the task, so a notify() the stable notification of that removal
\* makes is not dropped: it registers a new pending task and sets a new timer
C25_NotifyFromStableNotDropped ==
    [][RunsFinally /\ scheduler'.stable.notified =>
          /\ scheduler.pendingRenderTaskId \notin scheduler'.tasks
          /\ scheduler'.pendingRenderTaskId # NoTask
          /\ scheduler'.pendingRenderTaskId # scheduler.pendingRenderTaskId
          /\ scheduler'.pendingRenderTaskId \notin scheduler.tasks
          /\ scheduler'.tasks = {scheduler'.pendingRenderTaskId}
          /\ scheduler'.timers = scheduler.timers + 1]_vars

\* the subscriber of the stable notification has called notify() from the
\* finally block, and the scheduler has a new task and a new timer
C25_Witness ==
    /\ scheduler.running = "idle"
    /\ scheduler.fired = 1
    /\ scheduler.stable.notified
    /\ scheduler.notifies = 2
    /\ scheduler.pendingRenderTaskId = 1
    /\ scheduler.tasks = {1}
    /\ scheduler.timers = 1

\* the tasks in the pending-tasks service that notify() has added
OwnedTasks == scheduler.tasks \cap scheduler.added

\* at most one timer and one task of the scheduler are outstanding, and they
\* are there exactly while a render task is pending; every timer was set by
\* a notify() that added a task, and tick() runs at most once per timer
OneRenderTaskOutstanding ==
    /\ scheduler.timers <= 1
    /\ Cardinality(OwnedTasks) <= 1
    /\ scheduler.pendingRenderTaskId # NoTask <=>
          OwnedTasks = {scheduler.pendingRenderTaskId}
    /\ scheduler.pendingRenderTaskId # NoTask <=>
          (scheduler.timers = 1 \/ scheduler.running = "finally")
    /\ scheduler.pendingRenderTaskId = NoTask => OwnedTasks = {}
    /\ Cardinality(scheduler.added) = scheduler.fired + scheduler.timers
    /\ scheduler.ticks <= scheduler.fired

\* C26: whatever the interleaving of notify() calls and timer firings, at
\* most one render timer and at most one pending task of the scheduler are
\* outstanding; a notify() while a render task is pending adds no task and
\* sets no timer, so the notify() calls before a timer fires lead to one
\* tick() at most, that of the one timer
C26_AtMostOneRenderTask ==
    /\ []OneRenderTaskOutstanding
    /\ [][Notify /\ scheduler.pendingRenderTaskId # NoTask =>
             scheduler' = [scheduler EXCEPT !.notifies = @ + 1]]_vars
    /\ [][TimerFires /\ ~scheduler.destroyed =>
             /\ scheduler'.ticks = scheduler.ticks + 1
             /\ scheduler'.timers = 0
             /\ scheduler'.tasks = scheduler.tasks]_vars

\* notify() has been called three times before the timer fired, and the one
\* timer has run the one tick()
C26_Witness ==
    /\ scheduler.notifies = 3
    /\ scheduler.fired = 1
    /\ scheduler.ticks = 1
    /\ scheduler.added = {0}
    /\ scheduler.running = "idle"
    /\ scheduler.timers = 0
    /\ scheduler.pendingRenderTaskId = NoTask

\* the task ids the pending-tasks service can hand out in a run
TaskIds == 0..(MaxNotifies + MaxOtherTasks)

\* C27: every pending task notify() adds is removed once its timer fires,
\* and the pending task id is no longer that task, also when tick() throws
\* and when the ApplicationRef has been destroyed in the meantime; in the
\* destroyed case tick() is not called
C27_PendingTaskEventuallyRemoved ==
    /\ \A id \in TaskIds :
          (scheduler.pendingRenderTaskId = id) ~>
             (id \notin scheduler.tasks /\ scheduler.pendingRenderTaskId # id)
    /\ [][RunsFinally =>
             /\ scheduler.pendingRenderTaskId \notin scheduler'.tasks
             /\ scheduler'.pendingRenderTaskId # scheduler.pendingRenderTaskId
             /\ ~scheduler'.stable.notified => scheduler'.pendingRenderTaskId = NoTask]_vars
    /\ [][TimerFires /\ scheduler.destroyed =>
             /\ scheduler'.ticks = scheduler.ticks
             /\ scheduler'.running = "finally"]_vars

\* a timer has fired after the ApplicationRef was destroyed: tick() was not
\* called, and the task is gone
C27_Witness ==
    /\ scheduler.destroyed
    /\ scheduler.fired = 1
    /\ scheduler.ticks = 0
    /\ scheduler.added = {0}
    /\ scheduler.tasks = {}
    /\ scheduler.pendingRenderTaskId = NoTask
    /\ scheduler.running = "idle"

-----------------------------------------------------------------------------
(* The running flag of ApplicationRef between two calls of tick().         *)

\* no call of tick() is executing
NoTickExecuting == appStack = <<>>

\* the step is the recursion check of a call of tick() made while no other
\* call is executing
EntersOutermostTick ==
    /\ Len(appStack) = 1
    /\ AppTop.pc = "enter"
    /\ TickEnter

\* the step ends the outermost call of tick()
LeavesOutermostTick ==
    /\ Len(appStack) = 1
    /\ appStack' = <<>>

\* C28: whenever no call of tick() is executing the running flag is false,
\* also after a tick in which a view's change detection, an after-render
\* callback or the internal error handler threw; so a tick() called after
\* an earlier one has finished is never rejected as recursive; and an error
\* thrown by change detection goes to the internal error handler and is
\* not thrown on to the caller of tick()
C28_RunningFlagClearedAfterTick ==
    /\ [](NoTickExecuting => ~app.runningTick)
    /\ [][EntersOutermostTick => appThrown' # RECURSIVE_APPLICATION_REF_TICK]_vars
    /\ [][LeavesOutermostTick => appThrown' \notin {"ViewError", "ExpressionChanged"}]_vars

-----------------------------------------------------------------------------
(* The targets of the update operations of an ingested template.           *)

\* the elements that carry static attributes and inputs
AttributedElements ==
    {Element(I18nUndefined, TRUE, a, i, <<>>, <<>>) : a \in AttrSeqs(1), i \in InputSeqs}

\* one node of each kind whose ingestion pushes onto an update list
TargetingNodes ==
    {PipedText, SwitchOf(<<<<>>>>),
     DeferredBlock(TRUE, <<>>, NoBlock, NoBlock, NoBlock, {"when"}, {}, Cond, NoAst)}
    \cup {Content(I18nUndefined, a) : a \in AttrSeqs(1)}
    \cup AttributedElements
    \cup {IfOf(<<<<n>>>>) : n \in AttributedElements}
    \cup {ForOf(<<n>>, <<>>) : n \in AttributedElements}
    \cup {ForOf(<<n>>, <<<<n>>>>) : n \in AttributedElements}

\* the templates of one or two such nodes
TargetingTemplates(nodes) == {<<n>> : n \in nodes} \cup {<<n, m>> : n, m \in nodes}

IngestComponentTargets == IngestComponentOf(TargetingTemplates(TargetingNodes))

NextTargets ==
    \/ IngestComponentTargets
    \/ ReturnFromNodes
    \/ IngestBoundTextNode
    \/ IngestContentNode
    \/ IngestElementStart
    \/ IngestElementEnd
    \/ IngestIfBlock
    \/ IngestIfBranch
    \/ IngestIfEnd
    \/ IngestSwitchBlock
    \/ IngestSwitchCase
    \/ IngestSwitchEnd
    \/ IngestDeferBlock
    \/ IngestDeferView
    \/ IngestDeferViewEnd
    \/ IngestDeferEnd
    \/ IngestForBlock
    \/ IngestForEmpty
    \/ IngestForEnd

SpecTargets == Init /\ [][NextTargets]_vars

\* the ids the create list of a unit declares: the id of each create
\* operation, and the empty view recorded on a repeater-create operation
DeclaredIds(ops) ==
    {ops[i].xref : i \in {k \in DOMAIN ops : "xref" \in DOMAIN ops[k]}}
        \cup {ops[i].emptyView : i \in {k \in DOMAIN ops : ops[k].kind = "RepeaterCreate"}}

\* the kinds of operation ingestion pushes onto an update list
UpdateKinds == {"Binding", "InterpolateText", "Conditional", "Repeater", "DeferWhen"}

TargetsDeclared(v) ==
    \A i \in DOMAIN update[v] :
        /\ update[v][i].kind \in UpdateKinds
        /\ update[v][i].target \in DeclaredIds(create[v])

\* C29: once a component template has been ingested completely, every
\* operation of a unit's update list targets the id of a create operation of
\* the same unit, or the empty view of a repeater-create operation of it
C29_UpdateTargetsDeclared ==
    status = "done" => \A v \in Units : TargetsDeclared(v)

\* a loop with an @empty block and a projection, both with attributes, have
\* been ingested: the root view has a binding that targets the empty view of
\* the repeater-create op, one that targets the projection op, and the
\* repeater op of the loop
C29_Witness ==
    /\ status = "done"
    /\ \E i, k, r \in DOMAIN update[RootXref] : \E c, p \in DOMAIN create[RootXref] :
        /\ create[RootXref][c].kind = "RepeaterCreate"
        /\ create[RootXref][p].kind = "Projection"
        /\ update[RootXref][i].kind = "Binding"
        /\ update[RootXref][i].target = create[RootXref][c].emptyView
        /\ update[RootXref][k].kind = "Binding"
        /\ update[RootXref][k].target = create[RootXref][p].xref
        /\ update[RootXref][r].kind = "Repeater"
        /\ update[RootXref][r].target = create[RootXref][c].xref

-----------------------------------------------------------------------------
(* The views of an ingested template and the create ops that refer to them. *)

\* the views but the root
NonRootViews == Units \ {RootXref}

\* op refers to the view x as the id of a template op, or as the item view
\* or the empty view of a repeater-create op
RefersToView(op, x) ==
    \/ op.kind = "Template" /\ op.xref = x
    \/ op.kind = "RepeaterCreate" /\ (op.xref = x \/ op.emptyView = x)

\* the places <<unit, index>> of the create ops of the job that refer to x
ViewReferences(x) ==
    {p \in UNION {{<<v, i>> : i \in DOMAIN create[v]} : v \in Units} :
        RefersToView(create[p[1]][p[2]], x)}

RECURSIVE ViewsOfNodes(_), ViewsOfNode(_), ViewsOfBlocks(_)
\* the number of templates, if branches, switch cases, defer blocks (the main
\* block and the connected blocks that are present), loop bodies and loop
\* empty blocks among the nodes and below them
ViewsOfNodes(nodes) ==
    IF nodes = <<>> THEN 0 ELSE ViewsOfNode(Head(nodes)) + ViewsOfNodes(Tail(nodes))

\* the same for blocks, each present or absent, with children of its own
ViewsOfBlocks(blocks) ==
    IF blocks = <<>> THEN 0
    ELSE (IF "present" \in DOMAIN Head(blocks) /\ ~Head(blocks).present THEN 0
          ELSE 1 + ViewsOfNodes(Head(blocks).children))
         + ViewsOfBlocks(Tail(blocks))

ViewsOfNode(node) ==
    CASE node.kind = "Element" -> ViewsOfNodes(node.children)
      [] node.kind = "Template" -> 1 + ViewsOfNodes(node.children)
      [] node.kind = "IfBlock" -> ViewsOfBlocks(node.branches)
      [] node.kind = "SwitchBlock" -> ViewsOfBlocks(node.cases)
      [] node.kind = "DeferredBlock" ->
            1 + ViewsOfNodes(node.children)
              + ViewsOfBlocks(<<node.loading, node.placeholder, node.error>>)
      [] node.kind = "ForLoopBlock" ->
            1 + ViewsOfNodes(node.children) + ViewsOfBlocks(<<node.empty>>)
      [] OTHER -> 0

\* C30: once a component template has been ingested completely, every view
\* but the root is referred to by exactly one create op of the job, an op of
\* the create list of the view's parent, and there are as many such views as
\* templates, if branches, switch cases, present defer blocks, loop bodies
\* and loop empty blocks in the template
C30_ViewsReferencedOnceFromParent ==
    status = "done" =>
        /\ \A x \in NonRootViews :
            /\ Cardinality(ViewReferences(x)) = 1
            /\ \A p \in ViewReferences(x) : p[1] = parent[x]
        /\ Cardinality(NonRootViews) = ViewsOfNodes(template)

\* a template around a loop with an @empty block has been ingested: the
\* repeater-create op in the template's view refers to two of the three views
C30_Witness ==
    /\ status = "done"
    /\ Cardinality(NonRootViews) = 3
    /\ \E v \in NonRootViews : \E i \in DOMAIN create[v] :
        /\ create[v][i].kind = "RepeaterCreate"
        /\ create[v][i].emptyView \in NonRootViews
        /\ parent[create[v][i].emptyView] = v
        /\ parent[v] = RootXref

====
